---- MODULE Spec2Model ----
(***************************************************************************)
(* Nutrition bot: the nutrition-resolution pipeline of                     *)
(* src/services/api_services.py (Atwater validator, barcode provider       *)
(* chain, name provider chain, language-model interpreters, enrichment),   *)
(* specification Spec, and the message handlers of src/main.py that drive  *)
(* it (handle_text_or_barcode, handle_photo), specification SpecBot.       *)
(* The logical day and the tables of src/database/db.py with the commands  *)
(* that read and write them are specification SpecDb, the barcode detector *)
(* is specification SpecDetector, and the handler tasks of several users   *)
(* on the event loop are specification SpecLoop.  The quantity session     *)
(* (handle_barcode_quantity) with the handlers that open it, the           *)
(* resolution functions reduced to what they return, is specification      *)
(* SpecSession; concurrent calls of get_or_create_user are specification   *)
(* SpecUsers.                                                              *)
(*                                                                         *)
(* Quantities (grams, kcal) are fixed-point integers in hundredths:        *)
(* 165.0 kcal is 16500, 0.3 g is 30.  One decimal place is Tenth = 10      *)
(* hundredths.  Arithmetic is exact decimal arithmetic; Python's floats    *)
(* agree with it except within about 1e-13 of a rounding tie or of the     *)
(* 20 % boundary.                                                          *)
(***************************************************************************)
EXTENDS Integers, Sequences, FiniteSets, TLC

VARIABLES
    pc,      \* position of the running operation ("idle" when none runs)
    op,      \* the operation that runs or has just returned
    arg,     \* its input
    calls,   \* the external services it has awaited so far, in order
    result,  \* the value it returned (None until it returns)
    idx,     \* process_gemini_and_enrich: the index of the food item at hand
    acc,     \* process_gemini_and_enrich: the result list built so far
    handler, \* the message handler that runs, its input and its reply
    invoked, \* the resolution functions the handler has awaited, in order
    fsm,     \* the user's FSMContext: state and data
    food_log, \* the rows the handlers have logged, oldest first
    now,         \* the wall clock: datetime.now() and CURRENT_TIMESTAMP
    food_logs,   \* the rows of table food_logs
    saved_meals, \* the rows of table saved_meals
    serial,      \* the next value of the SERIAL columns log_id and meal_id
    db_op,       \* the last command or database call, and what it returned
    detector,    \* extract_barcode_from_image: its position and attempts
    tasks,       \* the event loop: the position of each user's handler task
    running,     \* the event loop: the task that holds its thread
    users,       \* the rows of table users, counted by user_id
    callers      \* get_or_create_user: the position of each call

vars ==
    <<pc, op, arg, calls, result, idx, acc, handler, invoked, fsm, food_log,
      now, food_logs, saved_meals, serial, db_op, detector, tasks, running,
      users, callers>>

\* the variables of the resolution functions
corevars == <<pc, op, arg, calls, result, idx, acc>>

\* the variables of the message handlers
botvars == <<handler, invoked, fsm, food_log>>

\* the variables of the database and its commands
dbvars == <<now, food_logs, saved_meals, serial, db_op>>

\* the variables of the event loop
loopvars == <<tasks, running>>

\* the variables of the users table and of the calls that fill it
uservars == <<users, callers>>

\* the variables of the database, the barcode detector, the event loop and
\* the users table
othervars == <<dbvars, detector, loopvars, uservars>>

\* ------------------------------------------------------------------------
\* Values
\* ------------------------------------------------------------------------

\* Python's None
None == [tag |-> "None"]

\* an exception that leaves a function body
Raised == [tag |-> "Raised"]

\* a key that is absent from a payload
Missing == "Missing"

\* round(x, 1): one decimal place, in hundredths
Tenth == 10

\* one gram (or one kcal) in hundredths
Gram == 10 * Tenth

Abs(x) == IF x < 0 THEN 0 - x ELSE x

\* round(n/d, 1) for a value n/d given in hundredths (d > 0): the nearest
\* multiple of Tenth, ties to the even multiple (Python's round)
Round1(n, d) ==
    LET k == n \div (Tenth * d)
        r == n - k * Tenth * d
    IN  IF 2 * r < Tenth * d THEN k * Tenth
        ELSE IF 2 * r > Tenth * d THEN (k + 1) * Tenth
        ELSE IF k % 2 = 0 THEN k * Tenth ELSE (k + 1) * Tenth

\* ------------------------------------------------------------------------
\* Atwater validator
\* ------------------------------------------------------------------------

KcalPerGramProtein == 4
KcalPerGramCarbs == 4
KcalPerGramFat == 9

\* the deviation limit 0.20, in percent
MaxDeviationPct == 20

\* faulty variant: truncation instead of rounding
AtwaterKcalTrunc(protein_g, carbs_g, fat_g) ==
    ((protein_g * KcalPerGramProtein + carbs_g * KcalPerGramCarbs
      + fat_g * KcalPerGramFat) \div Tenth) * Tenth

\* _atwater_kcal
AtwaterKcal(protein_g, carbs_g, fat_g) ==
    Round1(protein_g * KcalPerGramProtein + carbs_g * KcalPerGramCarbs
           + fat_g * KcalPerGramFat, 1)

\* faulty variant: the boundary deviation is rejected too (>= instead of >)
ValidateAndFixGeq(calories_reported, protein_g, carbs_g, fat_g) ==
    LET atwater == AtwaterKcal(protein_g, carbs_g, fat_g)
    IN  IF atwater = 0 THEN calories_reported
        ELSE IF atwater > 0
                /\ 100 * Abs(calories_reported - atwater) >= MaxDeviationPct * atwater
             THEN atwater
        ELSE calories_reported

\* faulty variant: the reported value is always kept
ValidateAndFixTrust(calories_reported, protein_g, carbs_g, fat_g) ==
    calories_reported

\* _validate_and_fix_calories: deviation = |reported - atwater| / atwater,
\* compared with 0.20 (a negative atwater gives a negative deviation)
ValidateAndFixCalories(calories_reported, protein_g, carbs_g, fat_g) ==
    LET atwater == AtwaterKcal(protein_g, carbs_g, fat_g)
    IN  IF atwater = 0 THEN calories_reported
        ELSE IF atwater > 0
                /\ 100 * Abs(calories_reported - atwater) > MaxDeviationPct * atwater
             THEN atwater
        ELSE calories_reported

\* class NutritionalData
NutritionalData(food_name, calories, protein, carbs, fat, source) ==
    [food_name |-> food_name, calories_per_100g |-> calories,
     protein_per_100g |-> protein, carbs_per_100g |-> carbs,
     fat_per_100g |-> fat, source |-> source]

IsRecord(x) == x # None /\ x # Raised

\* ------------------------------------------------------------------------
\* Input domains
\* ------------------------------------------------------------------------

\* macro values up to MaxCenti hundredths exercise the rounding
MaxCenti == 6

MacroVals == (0 .. MaxCenti) \cup {5 * Gram, 10 * Gram, 20 * Gram}

\* reported calorie figures around the 20 % band of 165.0 kcal
ReportedVals ==
    {0, 13190, 13200, 16500, 19640, 19800, 19810, 20630, 50000}

MacroTriples ==
    {<<0, 0, 0>>, <<10 * Gram, 20 * Gram, 5 * Gram>>, <<30, 0, 0>>, <<0, 0, 5>>}

\* ------------------------------------------------------------------------
\* External answers
\* ------------------------------------------------------------------------

\* An HTTP provider's answer: kind is
\*   "timeout"    the request raises (timeout, connection error)
\*   "status"     a status other than 200 (404, 500, ...)
\*   "malformed"  the body is not the JSON shape the parser reads (it raises)
\*   "missing"    a JSON body without the fields the provider's contract names
\*   "empty"      an empty product list / an empty object
\*   "ok"         a product: name (Missing, "" or a text), cal, macros
Answer(kind, name, cal, macros) ==
    [kind |-> kind, name |-> name, cal |-> cal, macros |-> macros]

FailureKinds == {"timeout", "status", "malformed", "missing"}

Failures == {Answer(k, Missing, 0, <<0, 0, 0>>) : k \in FailureKinds}

EmptyAnswer == Answer("empty", Missing, 0, <<0, 0, 0>>)

ZeroMacros == <<0, 0, 0>>

SomeMacros == <<10 * Gram, 20 * Gram, 5 * Gram>>

\* answers of Open Food Facts for a barcode
OffAnswers ==
    Failures \cup
    {Answer("ok", n, k, m) : n \in {Missing, "Galletas"},
                             k \in {0, 165 * Gram, 500 * Gram},
                             m \in {ZeroMacros, SomeMacros}}

\* answers of EAN Search (it carries no nutrient fields)
EanAnswers ==
    Failures \cup
    {Answer("ok", n, 0, ZeroMacros) : n \in {Missing, "", "Galletas"}}

\* answers of Barcode Lookup
BarcodeLookupAnswers ==
    Failures \cup {EmptyAnswer} \cup
    {Answer("ok", n, k, m) : n \in {Missing, "Galletas"},
                             k \in {0, 250 * Gram},
                             m \in {ZeroMacros, SomeMacros}}

\* answers of UPC Database
UpcAnswers ==
    Failures \cup {EmptyAnswer} \cup
    {Answer("ok", n, 0, ZeroMacros) : n \in {Missing, "Galletas"}}

\* answers of Barcode Database and of Barcode Monster
NameOnlyAnswers ==
    Failures \cup {EmptyAnswer} \cup
    {Answer("ok", n, 0, ZeroMacros) : n \in {"", "Galletas"}}

\* What the line scanner of the label reader extracts from a completion:
\* kind "raise" (the completion call raises), "malformed" (the completion has
\* no text content, the scanner raises) or "text"; name Missing when no
\* 'Nombre:' line is found; cal 0 when no calorie figure is read.
LabelAnswers ==
    {Answer("raise", Missing, 0, ZeroMacros),
     Answer("malformed", Missing, 0, ZeroMacros)} \cup
    {Answer("text", n, k, m) : n \in {Missing, "Galletas"},
                               k \in {0, 170 * Gram, 500 * Gram},
                               m \in {ZeroMacros, SomeMacros}}

\* ------------------------------------------------------------------------
\* Barcode providers
\* ------------------------------------------------------------------------

\* faulty variant: the exception leaves the function
CatchNot(r) == r

\* try: ... except Exception: return None
Catch(r) == IF r = Raised THEN None ELSE r

\* dict.get(key, default) on a name field
GetName(a, default) == IF a.name = Missing THEN default ELSE a.name

\* the body of _search_off_barcode inside its try
OffBarcodeBody(a) ==
    CASE a.kind \in {"timeout", "malformed"} -> Raised
      [] a.kind = "status" -> None
      [] a.kind = "missing" -> None
      [] OTHER ->
            IF a.cal = 0 /\ ~(a.macros[1] # 0 \/ a.macros[2] # 0 \/ a.macros[3] # 0)
            THEN None
            ELSE NutritionalData(GetName(a, "Unknown (OFF)"), a.cal,
                                 a.macros[1], a.macros[2], a.macros[3],
                                 "open_food_facts")

\* _search_off_barcode
SearchOffBarcode(a) == Catch(OffBarcodeBody(a))

\* the body of _search_ean_search inside its try
EanSearchBody(a) ==
    CASE a.kind \in {"timeout", "malformed"} -> Raised
      [] a.kind = "status" -> None
      [] a.kind = "missing" -> None
      [] OTHER ->
            LET product_name == GetName(a, "Unknown (EAN Search)")
            IN  IF product_name = "" THEN None
                ELSE NutritionalData(product_name, 0, 0, 0, 0, "ean_search")

\* _search_ean_search
SearchEanSearch(a) == Catch(EanSearchBody(a))

\* the fallback figure of Barcode Lookup and UPC Database: 100 kcal
DefaultKcal == 100

\* the body of _search_barcode_lookup inside its try
BarcodeLookupBody(a) ==
    CASE a.kind \in {"timeout", "malformed"} -> Raised
      [] a.kind = "status" -> None
      [] a.kind = "missing" -> None
      [] a.kind = "empty" -> None
      [] OTHER ->
            NutritionalData(GetName(a, "Unknown (Barcode Lookup)"),
                            IF a.cal = 0 THEN DefaultKcal * Gram ELSE a.cal,
                            a.macros[1], a.macros[2], a.macros[3],
                            "barcode_lookup")

\* _search_barcode_lookup
SearchBarcodeLookup(a) == Catch(BarcodeLookupBody(a))

\* the body of _search_upc_database inside its try
UpcDatabaseBody(a) ==
    CASE a.kind \in {"timeout", "malformed"} -> Raised
      [] a.kind = "status" -> None
      [] a.kind = "missing" -> None
      [] a.kind = "empty" -> None
      [] OTHER ->
            NutritionalData(GetName(a, "Unknown (UPC DB)"),
                            DefaultKcal * Gram, 0, 0, 0, "upc_database")

\* _search_upc_database
SearchUpcDatabase(a) == Catch(UpcDatabaseBody(a))

\* _search_barcode_database hands the lookup over to _search_barcode_monster
ToMonster == [tag |-> "ToMonster"]

\* _search_barcode_database up to its return or its call of
\* _search_barcode_monster; a JSON object without name and title gets the
\* default name
SearchBarcodeDatabase(a) ==
    CASE a.kind \in {"timeout", "malformed"} -> ToMonster
      [] a.kind = "status" -> ToMonster
      [] a.kind = "empty" -> ToMonster
      [] OTHER ->
            LET product_name == GetName(a, "Unknown (Barcode DB)")
            IN  IF product_name = "" THEN ToMonster
                ELSE NutritionalData(product_name, 0, 0, 0, 0, "barcode_database")

\* the body of _search_barcode_monster inside its try
BarcodeMonsterBody(a) ==
    CASE a.kind \in {"timeout", "malformed"} -> Raised
      [] a.kind = "status" -> None
      [] a.kind = "empty" -> None
      [] OTHER ->
            LET product_name == GetName(a, "Unknown (Barcode Monster)")
            IN  IF product_name = "" THEN None
                ELSE NutritionalData(product_name, 0, 0, 0, 0, "barcode_monster")

\* _search_barcode_monster
SearchBarcodeMonster(a) == Catch(BarcodeMonsterBody(a))

\* faulty variant: the calorie figure of the label is taken as read
NutritionLabelBodyTrust(a) ==
    IF a.kind \in {"raise", "malformed"} THEN Raised
    ELSE IF a.name = Missing THEN None
    ELSE NutritionalData(a.name, a.cal, a.macros[1], a.macros[2], a.macros[3],
                         "groq_image_analysis")

\* the body of _analyze_nutrition_label_with_groq inside its try, from the
\* fields its line scanner has extracted
NutritionLabelBody(a) ==
    IF a.kind \in {"raise", "malformed"} THEN Raised
    ELSE IF a.name = Missing THEN None
    ELSE LET protein == a.macros[1]
             carbs == a.macros[2]
             fat == a.macros[3]
             calories_final ==
                 IF a.cal > 0 /\ (protein > 0 \/ carbs > 0 \/ fat > 0)
                 THEN ValidateAndFixCalories(a.cal, protein, carbs, fat)
                 ELSE IF protein > 0 \/ carbs > 0 \/ fat > 0
                 THEN AtwaterKcal(protein, carbs, fat)
                 ELSE a.cal
         IN  NutritionalData(a.name, calories_final, protein, carbs, fat,
                             "groq_image_analysis")

\* _analyze_nutrition_label_with_groq
AnalyzeNutritionLabel(a) == Catch(NutritionLabelBody(a))

\* ------------------------------------------------------------------------
\* search_open_food_facts_by_barcode
\* ------------------------------------------------------------------------

\* faulty variant: Barcode Lookup is asked before EAN Search
ChainOrderSwapped == <<"off", "bl", "ean", "upc", "bdb">>

\* the order of the attempts (INTENTO 1 .. INTENTO 5)
ChainOrder == <<"off", "ean", "bl", "upc", "bdb">>

ChainIndex(svc) == CHOOSE i \in 1 .. Len(ChainOrder) : ChainOrder[i] = svc

\* faulty variant: the label is read whether or not an image came with the code
LabelFallbackAlways(image) == "label"

\* `if image_bytes:` after the last attempt
LabelFallback(image) == IF image THEN "label" ELSE "done"

\* where the chain goes when attempt svc has returned nothing
NextAttempt(svc, image) ==
    IF ChainIndex(svc) < Len(ChainOrder)
    THEN ChainOrder[ChainIndex(svc) + 1]
    ELSE LabelFallback(image)

\* one awaited call, as the chain's trace keeps it
Call(svc, a, r) ==
    [svc |-> svc, failed |-> a.kind \in FailureKinds \cup {"raise"}, ret |-> r]

\* `result = await _search_x(barcode)`, then `if result: return result`
AttemptReturns(svc, a, r) ==
    /\ calls' = Append(calls, Call(svc, a, r))
    /\ IF r = Raised
       THEN result' = Raised /\ pc' = "done"
       ELSE IF r # None
       THEN result' = r /\ pc' = "done"
       ELSE result' = None /\ pc' = NextAttempt(svc, arg.image)
    /\ UNCHANGED <<op, arg, idx, acc>>

\* ------------------------------------------------------------------------
\* Name providers: search_open_food_facts_by_name, search_usda_food_data
\* ------------------------------------------------------------------------

\* answers of Open Food Facts for a name
OffNameAnswers ==
    Failures \cup {EmptyAnswer} \cup
    {Answer("ok", n, k, m) : n \in {Missing, "Arroz Blanco"},
                             k \in {0, 130 * Gram},
                             m \in {ZeroMacros, SomeMacros}}

\* answers of USDA FoodData Central
UsdaAnswers ==
    Failures \cup {EmptyAnswer} \cup
    {Answer("ok", "RICE, WHITE", k, m) : k \in {0, 130 * Gram},
                                         m \in {ZeroMacros, SomeMacros}}

\* str.lower().title() on the names of the model
LowerTitle(n) ==
    CASE n = "RICE, WHITE" -> "Rice, White"
      [] n = "arroz" -> "Arroz"
      [] n = "pollo" -> "Pollo"
      [] OTHER -> n

\* the body of search_open_food_facts_by_name inside its try
OffByNameBody(a, food_name) ==
    CASE a.kind \in {"timeout", "malformed"} -> Raised
      [] a.kind = "status" -> None
      [] a.kind = "missing" -> None
      [] a.kind = "empty" -> None
      [] OTHER ->
            NutritionalData(GetName(a, food_name), a.cal,
                            a.macros[1], a.macros[2], a.macros[3], "off")

\* search_open_food_facts_by_name
SearchOffByName(a, food_name) == Catch(OffByNameBody(a, food_name))

\* the body of search_usda_food_data inside its try
UsdaBody(a, food_name) ==
    CASE a.kind \in {"timeout", "malformed"} -> Raised
      [] a.kind = "status" -> None
      [] a.kind = "missing" -> None
      [] a.kind = "empty" -> None
      [] OTHER ->
            IF a.cal = 0 /\ a.macros[1] = 0 THEN None
            ELSE NutritionalData(LowerTitle(GetName(a, food_name)), a.cal,
                                 a.macros[1], a.macros[2], a.macros[3], "usda")

\* search_usda_food_data
SearchUsdaFoodData(a, food_name) == Catch(UsdaBody(a, food_name))

\* faulty variant: the government database is asked first
NameChainOrderSwapped == <<"usda", "off_name">>

\* get_nutrition_by_food_name: Intento 1, Intento 2
NameChainOrder == <<"off_name", "usda">>

\* ------------------------------------------------------------------------
\* Text interpreter: process_with_gemini
\* ------------------------------------------------------------------------

\* a food object of the completion's JSON: per-portion totals
RawFood(alimento, cantidad_g, totals) ==
    [alimento |-> alimento, cantidad_g |-> cantidad_g, totals |-> totals]

\* a food object as process_gemini_and_enrich reads it: fields is "complete"
\* (the four per-100g keys hold numbers), "nonnumeric" (they are present, one
\* does not convert with float) or "absent"
Food(name, grams, fields, cal, macros) ==
    [name |-> name, estimated_grams |-> grams, fields |-> fields,
     calories_per_100g |-> cal, protein_per_100g |-> macros[1],
     carbs_per_100g |-> macros[2], fat_per_100g |-> macros[3]]

\* the default portion of process_with_gemini and process_gemini_and_enrich
DefaultGrams == 100

\* max(int(cantidad_g), 1) after `food.get("cantidad_g") or ... 100`; an
\* absent quantity and a quantity of 0 are both falsy, and written 0 here
Cantidad(food) ==
    LET c == IF food.cantidad_g = 0 THEN DefaultGrams ELSE food.cantidad_g
    IN  IF c < 1 THEN 1 ELSE c

\* process_with_gemini, POST-PROCESO of one food: Atwater on the totals, then
\* every figure times 100 / cantidad_g, rounded to one decimal
NormalizeFood(food) ==
    LET q == Cantidad(food)
        kcal_total == AtwaterKcal(food.totals[1], food.totals[2], food.totals[3])
    IN  Food(IF food.alimento = Missing THEN "Alimento desconocido"
             ELSE food.alimento,
             q, "complete", Round1(kcal_total * 100, q),
             <<Round1(food.totals[1] * 100, q),
               Round1(food.totals[2] * 100, q),
               Round1(food.totals[3] * 100, q)>>)

\* the body of process_with_gemini inside its try: kind "raise" (the
\* completion call raises), "nojson" (no JSON object, or one without foods),
\* "baditem" (a food that is no object, or a figure float() or int() rejects)
\* or "foods"
ProcessWithGeminiBody(a) ==
    CASE a.kind \in {"raise", "baditem"} -> Raised
      [] a.kind = "nojson" -> None
      [] OTHER ->
            IF a.foods = <<>> THEN None
            ELSE [foods |-> [i \in 1 .. Len(a.foods) |-> NormalizeFood(a.foods[i])]]

\* process_with_gemini
ProcessWithGemini(a) == Catch(ProcessWithGeminiBody(a))

\* ------------------------------------------------------------------------
\* process_gemini_and_enrich
\* ------------------------------------------------------------------------

\* the per-100g defaults of Opcion 3, in grams
DefaultProt == 10
DefaultCarbs == 20
DefaultFat == 5

\* `food.get("estimated_grams") or food.get("cantidad_g", 100)`, 100 if <= 0
EstimatedGrams(food) ==
    IF food.estimated_grams <= 0 THEN DefaultGrams ELSE food.estimated_grams

\* faulty variant: the food's own figures are never used
OptionGroqNever(food) == None

\* Opcion 1: the food's own per-100g figures, reconciled; None when a key is
\* absent or float() raises
OptionGroq(food) ==
    IF food.fields = "complete"
    THEN NutritionalData(food.name,
                         ValidateAndFixCalories(food.calories_per_100g,
                                                food.protein_per_100g,
                                                food.carbs_per_100g,
                                                food.fat_per_100g),
                         food.protein_per_100g, food.carbs_per_100g,
                         food.fat_per_100g, "groq_atwater")
    ELSE None

\* faulty variant: no record is assigned when the name chain finds nothing
OptionDefaultNone(name) == None

\* Opcion 3: the generic default record
OptionDefault(name) ==
    NutritionalData(name,
                    AtwaterKcal(DefaultProt * Gram, DefaultCarbs * Gram,
                                DefaultFat * Gram),
                    DefaultProt * Gram, DefaultCarbs * Gram, DefaultFat * Gram,
                    "default")

\* faulty variant: the default record is assigned whatever the name chain found
OptionApiDefault(api_result) == OptionDefault(api_result.food_name)

\* Opcion 2: a name provider's record with its calories reconciled
OptionApi(api_result) ==
    [api_result EXCEPT !.calories_per_100g =
        ValidateAndFixCalories(api_result.calories_per_100g,
                               api_result.protein_per_100g,
                               api_result.carbs_per_100g,
                               api_result.fat_per_100g)]

\* ------------------------------------------------------------------------
\* Interpreter answers and food lists
\* ------------------------------------------------------------------------

\* the longest food list of an interpreter answer
MaxFoods == 2

SeqsUpTo(S, n) == UNION {[1 .. k -> S] : k \in 0 .. n}

\* food objects of a completion: portion in grams, totals in hundredths
RawFoods ==
    {RawFood(n, q, t) :
        n \in {"huevos"},
        q \in {0, 1, 120, 300},
        t \in {ZeroMacros, <<1 * Gram, 0, 0>>, <<15 * Gram, 1 * Gram, 13 * Gram>>}}

GeminiAnswers ==
    {[kind |-> "raise", foods |-> <<>>], [kind |-> "nojson", foods |-> <<>>],
     [kind |-> "baditem", foods |-> <<>>]}
    \cup {[kind |-> "foods", foods |-> fs] : fs \in SeqsUpTo(RawFoods, MaxFoods)}

\* food objects handed to process_gemini_and_enrich by a caller
EnrichFoods ==
    {Food(Missing, 250, "absent", 0, ZeroMacros),
     Food("pollo", 0, "absent", 0, ZeroMacros),
     Food("arroz", 250, "nonnumeric", 0, ZeroMacros),
     Food("arroz", 250, "complete", 165 * Gram, SomeMacros),
     Food("arroz", 0, "complete", 500 * Gram, SomeMacros),
     Food("arroz", 250, "complete", 180 * Gram, SomeMacros),
     Food("arroz", 250, "complete", 50 * Gram, ZeroMacros)}

\* ------------------------------------------------------------------------
\* Plate analysis: analyze_food_plate_with_groq
\* ------------------------------------------------------------------------

\* What the line scanner of the plate analysis extracts from a completion:
\* kind "raise", "malformed" or "text"; name Missing when no 'Nombre:' line
\* is found, "No identificado" when the model answers as the prompt tells it
\* to for a dish it cannot identify; ingredients "" when none are read.
PlateAnswer(kind, name, ingredients, macros) ==
    [kind |-> kind, name |-> name, ingredients |-> ingredients, macros |-> macros]

PlateAnswers ==
    {PlateAnswer("raise", Missing, "", ZeroMacros),
     PlateAnswer("malformed", Missing, "", ZeroMacros)} \cup
    {PlateAnswer("text", n, i, m) : n \in {Missing, "No identificado", "Lasana"},
                                    i \in {"", "pasta"},
                                    m \in {ZeroMacros, SomeMacros}}

\* f"{product_name} ({ingredients[:80]})" on the names of the model
DisplayName(product_name, ingredients) ==
    IF ingredients = "" THEN product_name
    ELSE CASE product_name = "Lasana" -> "Lasana (pasta)"
           [] product_name = "No identificado" -> "No identificado (pasta)"
           [] OTHER -> "Plato no identificado (pasta)"

\* the body of analyze_food_plate_with_groq inside its try
FoodPlateBody(a) ==
    IF a.kind \in {"raise", "malformed"} THEN Raised
    ELSE LET product_name == GetName(a, "Plato no identificado")
             protein == a.macros[1]
             carbs == a.macros[2]
             fat == a.macros[3]
         IN  IF product_name = "Plato no identificado"
                /\ protein = 0 /\ carbs = 0 /\ fat = 0
             THEN None
             ELSE NutritionalData(DisplayName(product_name, a.ingredients),
                                  AtwaterKcal(protein, carbs, fat),
                                  protein, carbs, fat, "groq_plate_analysis")

\* analyze_food_plate_with_groq
AnalyzeFoodPlate(a) == Catch(FoodPlateBody(a))

\* ------------------------------------------------------------------------
\* Message handlers: inputs, session and food log
\* ------------------------------------------------------------------------

\* a message: a text (all digits or not, its length) or a photo (with or
\* without caption)
Input(kind, digits, len, caption) ==
    [kind |-> kind, digits |-> digits, len |-> len, caption |-> caption]

NoInput == Input("none", FALSE, 0, FALSE)

\* text lengths around the limits of a barcode
TextLens == {7, 8, 14, 15}

Texts ==
    {Input("text", TRUE, n, FALSE) : n \in TextLens}
    \cup {Input("text", FALSE, 8, FALSE)}

Photos == {Input("photo", FALSE, 0, c) : c \in BOOLEAN}

\* faulty variant: no text is taken for a barcode
IsValidBarcodeNever(text) == FALSE

\* faulty variant: any text of digits, whatever its length
IsValidBarcodeAnyLength(text) == text.digits

\* is_valid_barcode
IsValidBarcode(text) == text.digits /\ 8 <= text.len /\ text.len <= 14

\* the texts is_valid_barcode is tried on: of digits only or not, of the
\* lengths around 8 and 14.  The empty text is not of digits
BarcodeTexts ==
    {Input("text", d, n, FALSE) :
        d \in BOOLEAN, n \in {0, 6, 7, 8, 13, 14, 15}}
    \ {Input("text", TRUE, 0, FALSE)}

\* no handler runs
NoHandler == [name |-> "none", input |-> NoInput, reply |-> "none"]

\* the FSMContext of a user without session
NoSession == [state |-> "none", nutrition_data |-> None, barcode |-> None]

\* the code extract_barcode_from_image reads from a photo
DetectedCode == [code |-> Input("text", TRUE, 13, FALSE)]

\* the code a user has typed
TypedCode(text) == [code |-> text]

\* NutritionalData.calculate_totals: int(per_100g / 100 * quantity_grams)
CalculateTotals(nutrition, quantity_grams) ==
    [calories |-> (nutrition.calories_per_100g * quantity_grams) \div (100 * Gram),
     protein |-> (nutrition.protein_per_100g * quantity_grams) \div (100 * Gram),
     carbs |-> (nutrition.carbs_per_100g * quantity_grams) \div (100 * Gram),
     fat |-> (nutrition.fat_per_100g * quantity_grams) \div (100 * Gram)]

\* the row db.log_food writes for one enriched food; no barcode is given
LogRow(food_name, grams, nutrition) ==
    [food_name |-> food_name, quantity_grams |-> grams,
     totals |-> CalculateTotals(nutrition, grams), barcode |-> None]

\* ------------------------------------------------------------------------
\* The quantity session: handle_barcode_quantity
\* ------------------------------------------------------------------------

\* the number of decimal digits of n
RECURSIVE DecLen(_)
DecLen(n) == IF n < 10 THEN 1 ELSE 1 + DecLen(n \div 10)

\* a text without a number in it (the numbers of a text are naturals)
NoNumber == 0 - 1

\* the reply to "how many grams?": a sign, a number and what follows it
QuantityText(sign, number, suffix) ==
    [kind |-> "text",
     digits |-> sign = "" /\ suffix = "" /\ number # NoNumber,
     len |-> Len(sign) + Len(suffix)
             + (IF number = NoNumber THEN 0 ELSE DecLen(number)),
     caption |-> FALSE,
     sign |-> sign, number |-> number, suffix |-> suffix]

\* `if grams > 10000`
MaxQuantity == 10000

\* the numbers of the replies: around the limits 1 and 10000, and one of
\* eight digits, as long as a barcode
QuantityNumbers == {0, 1, MaxQuantity, MaxQuantity + 1, 12345678}

\* replies: a number, "-1", a number with the unit the prompt shows
\* ("150gr", "150 g"), a word, a number with another unit
QuantityTexts ==
    {QuantityText("", n, "") : n \in QuantityNumbers}
    \cup {QuantityText("-", 1, ""), QuantityText("", 1, "gr"),
          QuantityText("", MaxQuantity, " g"),
          QuantityText("", NoNumber, "pollo"), QuantityText("", 1, "kg")}

\* the units the handler removes, in its order
QuantitySuffixes == <<"gramos", "grams", "gram", "gr", "g", " ">>

\* text.lower().strip() and the loop of replace(suffix, "").strip(): what
\* is left of the text after the number.  "kg" loses its g, a word with
\* none of the units in it stays
CleanedRest(suffix) ==
    IF suffix \in {QuantitySuffixes[k] : k \in 1..Len(QuantitySuffixes)}
                  \cup {"", " g", " gr", " gramos"}
    THEN ""
    ELSE IF suffix = "kg" THEN "k" ELSE suffix

\* int(cleaned_text): the integer, or no integer when int() raises
\* ValueError
ParseGrams(text) ==
    IF text.number = NoNumber \/ CleanedRest(text.suffix) # ""
    THEN [ok |-> FALSE, grams |-> 0]
    ELSE [ok |-> TRUE,
          grams |-> IF text.sign = "-" THEN 0 - text.number ELSE text.number]

\* faulty variant: any number is taken for a quantity
QuantityCheckNone(parsed) ==
    IF ~parsed.ok THEN "not_understood" ELSE "ok"

\* `except ValueError`, `if grams <= 0`, `if grams > 10000`
QuantityCheck(parsed) ==
    IF ~parsed.ok THEN "not_understood"
    ELSE IF parsed.grams <= 0 THEN "not_positive"
    ELSE IF parsed.grams > MaxQuantity THEN "too_large"
    ELSE "ok"

\* the row db.log_food writes for the pending record of a session
QuantityLogRow(nutrition, grams, barcode) ==
    [food_name |-> nutrition.food_name, quantity_grams |-> grams,
     totals |-> CalculateTotals(nutrition, grams),
     barcode |-> barcode]

\* what the database calls of the handler do: all succeed, one before the
\* INSERT has taken place raises, or one after it raises
DbOutcomes == {"ok", "fails", "fails_after_insert"}

\* aiogram's routers in their order, fsm_router first: a text of a user
\* whose state is waiting_quantity is for handle_barcode_quantity, any other
\* message for the handlers of main_router
RouteMainFirst(state, kind) == IF kind = "photo" THEN "photo" ELSE "text"

Route(state, kind) ==
    IF state = "waiting_quantity" /\ kind = "text" THEN "quantity"
    ELSE IF kind = "photo" THEN "photo" ELSE "text"

\* the most rows the food log holds
MaxLog == 3

\* food objects of the completions the handlers receive
HandlerRawFoods ==
    {RawFood("huevos", 120, <<15 * Gram, 1 * Gram, 13 * Gram>>)}

HandlerGeminiAnswers ==
    {[kind |-> "raise", foods |-> <<>>], [kind |-> "nojson", foods |-> <<>>],
     [kind |-> "baditem", foods |-> <<>>]}
    \cup {[kind |-> "foods", foods |-> fs] :
             fs \in SeqsUpTo(HandlerRawFoods, MaxFoods)}

\* ------------------------------------------------------------------------
\* The logical day: get_logical_day_start, get_logical_day_end
\* ------------------------------------------------------------------------

\* a naive datetime.  The microsecond field is 0 or 500000, so that an
\* instant is a whole number of half seconds
Datetime(day, hour, minute, second, microsecond) ==
    [day |-> day, hour |-> hour, minute |-> minute, second |-> second,
     microsecond |-> microsecond]

\* the position of a datetime on the time line, in half seconds
Ticks(dt) ==
    (((dt.day * 24 + dt.hour) * 60 + dt.minute) * 60 + dt.second) * 2
        + dt.microsecond \div 500000

\* the datetime at a position of the time line
FromTicks(n) ==
    Datetime(n \div 172800, (n \div 7200) % 24, (n \div 120) % 60,
             (n \div 2) % 60, (n % 2) * 500000)

\* timedelta(days, hours, seconds), in half seconds
Timedelta(days, hours, seconds) == ((days * 24 + hours) * 3600 + seconds) * 2

\* datetime + timedelta
Plus(dt, delta) == FromTicks(Ticks(dt) + delta)

\* datetime < datetime
Before(a, b) == Ticks(a) < Ticks(b)

\* LOGICAL_DAY_START_HOUR
LogicalDayStartHour == 3

\* the days of the instants tried
MaxDay == 2

ClockHours == {0, 2, LogicalDayStartHour, 4, 23}

\* the instants tried: around midnight, around the start hour, with and
\* without a fraction of a second
Instants ==
    {Datetime(d, h, m, s, u) :
        d \in 1 .. MaxDay, h \in ClockHours, m \in {0, 59}, s \in {0, 59},
        u \in {0, 500000}}

\* faulty variant: the start hour of the same date, never the day before
GetLogicalDayStartSameDate(date) ==
    [date EXCEPT !.hour = LogicalDayStartHour, !.minute = 0, !.second = 0,
                 !.microsecond = 0]

\* get_logical_day_start
GetLogicalDayStart(date) ==
    LET start_of_logical_day ==
            [date EXCEPT !.hour = LogicalDayStartHour, !.minute = 0,
                         !.second = 0, !.microsecond = 0]
    IN  IF Before(date, start_of_logical_day)
        THEN Plus(start_of_logical_day, Timedelta(-1, 0, 0))
        ELSE start_of_logical_day

\* faulty variant: the end is the start of the next logical day
GetLogicalDayEndFullDay(date) ==
    Plus(GetLogicalDayStart(date), Timedelta(0, 24, 0))

\* get_logical_day_end
GetLogicalDayEnd(date) ==
    Plus(Plus(GetLogicalDayStart(date), Timedelta(0, 24, 0)),
         Timedelta(0, 0, -1))

\* ------------------------------------------------------------------------
\* The database: tables food_logs and saved_meals, and their queries
\* ------------------------------------------------------------------------

\* the Telegram users
Users == {1, 2}

\* the name given to saved meals
MealNames == {"cena"}

\* the calories of a logged food.  Protein, carbs and fat are columns that
\* the queries sum exactly as they sum calories; they are left out
LoggedKcal == {165}

\* the saved meals ever inserted (meal_id is SERIAL)
MaxMeals == 2

\* the food-log rows ever inserted (log_id is SERIAL)
MaxRows == 2

\* the instants at which the clock is read: an evening, the last second of
\* that logical day, and the first instant of the next logical day
DbInstants ==
    {Datetime(MaxDay - 1, 23, 0, 0, 0)}
    \cup {t \in Instants :
            /\ t.day = MaxDay /\ t.microsecond = 0
            /\ \/ t.hour = 2 /\ t.minute = 59 /\ t.second = 59
               \/ t.hour = LogicalDayStartHour /\ t.minute = 0
                     /\ t.second = 0}

\* a row of food_logs; timestamp is DEFAULT CURRENT_TIMESTAMP
FoodLogRow(log_id, user_id, calories, timestamp) ==
    [log_id |-> log_id, user_id |-> user_id, calories |-> calories,
     timestamp |-> timestamp]

\* a row of saved_meals
SavedMealRow(meal_id, user_id, meal_name, total_calories) ==
    [meal_id |-> meal_id, user_id |-> user_id, meal_name |-> meal_name,
     total_calories |-> total_calories]

\* no command has run yet
NoDbOp == [name |-> "none", user_id |-> 0, arg |-> None, ret |-> None]

DbOp(name, user_id, a, ret) ==
    [name |-> name, user_id |-> user_id, arg |-> a, ret |-> ret]

RECURSIVE SumCalories(_)
\* SUM(calories) over a set of rows
SumCalories(rows) ==
    IF rows = {} THEN 0
    ELSE LET r == CHOOSE x \in rows : TRUE
         IN  r.calories + SumCalories(rows \ {r})

\* WHERE user_id = $1 AND timestamp >= $2 AND timestamp < $3
InQueryWindow(row, user_id, day_start, day_end) ==
    /\ row.user_id = user_id
    /\ Ticks(row.timestamp) >= Ticks(day_start)
    /\ Ticks(row.timestamp) < Ticks(day_end)

\* the rows the queries of get_today_totals and get_day_history select for
\* the logical day of a datetime
SelectDay(table, user_id, date) ==
    {r \in table :
        InQueryWindow(r, user_id, GetLogicalDayStart(date),
                      GetLogicalDayEnd(date))}

\* the summary both functions return; without rows SUM is NULL and the
\* summary is all zeros
Totals(rows) ==
    [total_calories |-> SumCalories(rows), food_count |-> Cardinality(rows)]

\* get_today_totals at the time of the clock
GetTodayTotals(table, user_id, clock) == Totals(SelectDay(table, user_id, clock))

\* get_day_history: the summary and the rows
GetDayHistory(table, user_id, date) ==
    [summary |-> Totals(SelectDay(table, user_id, date)),
     food_logs |-> SelectDay(table, user_id, date)]

\* faulty variant: the latest row of the table, whoever logged it
LastEntriesAnyUser(table, user_id) ==
    {r \in table :
        \A q \in table : Ticks(q.timestamp) <= Ticks(r.timestamp)}

\* delete_last_entry: ORDER BY timestamp DESC LIMIT 1 selects a row of the
\* user with the latest timestamp
LastEntries(table, user_id) ==
    {r \in table :
        /\ r.user_id = user_id
        /\ \A q \in table :
              q.user_id = user_id => Ticks(q.timestamp) <= Ticks(r.timestamp)}

\* faulty variant: the INSERT of a table without the UNIQUE constraint
SaveMealNoConstraint(table, meal_id, user_id, meal_name, total_calories) ==
    [ret |-> meal_id,
     table |-> table \cup
                 {SavedMealRow(meal_id, user_id, meal_name, total_calories)}]

\* save_meal: the INSERT violates unique_meal_name when the user has a meal
\* of that name, and -1 is returned; otherwise the new meal_id
SaveMeal(table, meal_id, user_id, meal_name, total_calories) ==
    IF \E m \in table : m.user_id = user_id /\ m.meal_name = meal_name
    THEN [ret |-> -1, table |-> table]
    ELSE [ret |-> meal_id,
          table |-> table \cup
                 {SavedMealRow(meal_id, user_id, meal_name, total_calories)}]

\* delete_saved_meal
DeleteSavedMeal(table, user_id, meal_name) ==
    LET rest == {m \in table :
                    ~(m.user_id = user_id /\ m.meal_name = meal_name)}
    IN  [ret |-> rest # table, table |-> rest]

\* ------------------------------------------------------------------------
\* The barcode detector: _try_pyzbar_decode, extract_barcode_from_image
\* ------------------------------------------------------------------------

\* a run of characters of a decoded payload: digits or other characters
Run(digit, len) == [digit |-> digit, len |-> len]

\* the lengths of the runs of digits tried
DigitRunLens == {7, 8, 14, 15}

\* the payloads tried, after strip(): a sequence of runs, alternately of
\* digits and of other characters.  <<>> is the empty payload
Payloads ==
    {<<>>, <<Run(FALSE, 1)>>}
    \cup {<<Run(TRUE, n)>> : n \in DigitRunLens}
    \cup {<<Run(FALSE, 1), Run(TRUE, n)>> : n \in DigitRunLens}
    \cup {<<Run(TRUE, n), Run(FALSE, 1), Run(TRUE, m)>> :
             n \in DigitRunLens, m \in DigitRunLens}

\* what pyzbar_decode gives: a list of decoded objects, or it raises, or
\* pyzbar is not installed
Decoded(kind, objects) == [kind |-> kind, objects |-> objects]

DecodedLists ==
    {Decoded("raise", <<>>), Decoded("unavailable", <<>>)}
    \cup {Decoded("objects", os) : os \in SeqsUpTo(Payloads, 2)}

\* str.isdigit: not empty and digits only
IsDigit(payload) == Len(payload) = 1 /\ payload[1].digit

RECURSIVE PayloadLen(_)
\* len(barcode)
PayloadLen(payload) ==
    IF payload = <<>> THEN 0
    ELSE payload[1].len + PayloadLen(Tail(payload))

\* a returned code: the first len digits of a run of a decoded object
Code(object, run, len) == [object |-> object, run |-> run, len |-> len]

\* re.search(r'(\d{8,14})', barcode): the leftmost place where 8 digits
\* follow one another, and from there as many digits as follow, up to 14
DigitsSearch(payload) ==
    LET hits == {i \in 1 .. Len(payload) :
                    payload[i].digit /\ payload[i].len >= 8}
        first == CHOOSE i \in hits : \A j \in hits : i <= j
    IN  IF hits = {} THEN None
        ELSE [run |-> first,
              len |-> IF payload[first].len > 14 THEN 14
                      ELSE payload[first].len]

\* the body of the loop over the decoded objects: what object k returns,
\* None when the loop goes on
AcceptObject(payload, k) ==
    IF IsDigit(payload) /\ 8 <= PayloadLen(payload)
          /\ PayloadLen(payload) <= 14
    THEN Code(k, 1, PayloadLen(payload))
    ELSE IF payload # <<>> /\ DigitsSearch(payload) # None
         THEN Code(k, DigitsSearch(payload).run, DigitsSearch(payload).len)
         ELSE None

\* _try_pyzbar_decode: the first decoded object that returns a code
TryPyzbarDecode(decoded) ==
    IF decoded.kind # "objects" THEN None
    ELSE LET hits == {k \in 1 .. Len(decoded.objects) :
                         AcceptObject(decoded.objects[k], k) # None}
             first == CHOOSE k \in hits : \A j \in hits : k <= j
         IN  IF hits = {} THEN None
             ELSE AcceptObject(decoded.objects[first], first)

\* rotation_angles
RotationAngles == <<0, 90, 180, 270>>

\* the seven attempts of one rotation, by strategy_name
Strategies ==
    <<"RGB", "Gray", "Enhanced", "Inverted", "Morphology", "Equalized",
      "Blurred+Thresh">>

\* the transforms that raise during one search
MaxRaises == 1

\* what pyzbar decodes in an attempt of the search
SearchDecodes ==
    {Decoded("objects", <<>>), Decoded("raise", <<>>),
     Decoded("objects", <<<<Run(TRUE, 14)>>>>),
     Decoded("objects", <<<<Run(FALSE, 1), Run(TRUE, 8)>>>>)}

\* a state of extract_barcode_from_image
Search(p, angle, strategy, attempts, a, ret) ==
    [pc |-> p, angle |-> angle, strategy |-> strategy,
     attempts |-> attempts, arg |-> a, result |-> ret]

\* no search runs
NoSearch == Search("idle", 0, 0, <<>>, None, None)

\* faulty variant: a transform that raises ends the search
SearchGoesOnUnlessRaised(ret) == ret = None

\* after an attempt: `if result: return result` is not taken, or the
\* transform raised and `except: pass` was
SearchGoesOn(ret) == ret = None \/ ret = Raised

\* ------------------------------------------------------------------------
\* The event loop
\* ------------------------------------------------------------------------

\* the handler task of a user: the point it is at, whether it can run on
\* (its awaited I/O is done and it waits for the thread), and its input
Task(at, ready, input) == [at |-> at, ready |-> ready, input |-> input]

\* the user has no update in process
IdleTask == Task("idle", FALSE, "none")

\* no task holds the thread of the event loop
NoTask == 0

\* the awaits of handle_text_or_barcode at which the task is suspended
\* until I/O is done: message.chat.do("typing"), the aiohttp requests of
\* the provider chain and of the enrichment, the database, message.reply
Awaits == {"typing", "chain", "enrich", "db", "reply"}

\* ------------------------------------------------------------------------
\* The users table: get_or_create_user
\* ------------------------------------------------------------------------

\* the most handlers that are in get_or_create_user at a time
MaxCallers == 2

Callers == 1 .. MaxCallers

\* a call of get_or_create_user: the statement it is about to run, the
\* user_id it was called with and what the first SELECT has found
GetOrCreate(at, user_id, row) == [at |-> at, user_id |-> user_id, row |-> row]

\* a handler that is not in get_or_create_user
IdleCall == GetOrCreate("idle", 0, FALSE)

\* ------------------------------------------------------------------------
\* Initial state and the operations on pure functions
\* ------------------------------------------------------------------------

Init ==
    /\ pc = "idle"
    /\ op = "none"
    /\ arg = <<>>
    /\ calls = <<>>
    /\ result = None
    /\ idx = 0
    /\ acc = <<>>
    /\ handler = NoHandler
    /\ invoked = <<>>
    /\ fsm = NoSession
    /\ food_log = <<>>
    /\ now = Datetime(MaxDay - 1, 23, 0, 0, 0)
    /\ food_logs = {}
    /\ saved_meals = {}
    /\ serial = [log_id |-> 1, meal_id |-> 1]
    /\ db_op = NoDbOp
    /\ detector = NoSearch
    /\ tasks = [u \in Users |-> IdleTask]
    /\ running = NoTask
    /\ users = [u \in Users |-> 0]
    /\ callers = [c \in Callers |-> IdleCall]

\* a call of _atwater_kcal
ApplyAtwater ==
    /\ pc = "idle"
    /\ \E p \in MacroVals, c \in MacroVals, f \in MacroVals :
          /\ arg' = <<p, c, f>>
          /\ result' = AtwaterKcal(p, c, f)
    /\ pc' = "done"
    /\ op' = "atwater"
    /\ UNCHANGED <<calls, idx, acc>>
    /\ UNCHANGED botvars
    /\ UNCHANGED othervars

\* a call of _validate_and_fix_calories
ApplyValidate ==
    /\ pc = "idle"
    /\ \E r \in ReportedVals \cup (0 .. MaxCenti), m \in MacroTriples :
          /\ arg' = <<r, m[1], m[2], m[3]>>
          /\ result' = ValidateAndFixCalories(r, m[1], m[2], m[3])
    /\ pc' = "done"
    /\ op' = "validate"
    /\ UNCHANGED <<calls, idx, acc>>
    /\ UNCHANGED botvars
    /\ UNCHANGED othervars

\* the operation has returned to its caller; the next input may arrive
Return ==
    /\ pc = "done"
    /\ pc' = "idle"
    /\ op' = "none"
    /\ arg' = <<>>
    /\ calls' = <<>>
    /\ result' = None
    /\ idx' = 0
    /\ acc' = <<>>
    /\ UNCHANGED botvars
    /\ UNCHANGED othervars

\* handle_text_or_barcode, a text that is a barcode:
\* search_open_food_facts_by_barcode(text), no image
StartBarcodeFromText ==
    /\ pc = "idle"
    /\ pc' = ChainOrder[1]
    /\ op' = "barcode"
    /\ arg' = [image |-> FALSE]
    /\ UNCHANGED <<calls, result, idx, acc>>
    /\ UNCHANGED botvars
    /\ UNCHANGED othervars

\* handle_photo, a code was detected in the photo:
\* search_open_food_facts_by_barcode(detected_barcode, image_bytes=image_bytes)
StartBarcodeFromPhoto ==
    /\ pc = "idle"
    /\ pc' = ChainOrder[1]
    /\ op' = "barcode"
    /\ arg' = [image |-> TRUE]
    /\ UNCHANGED <<calls, result, idx, acc>>
    /\ UNCHANGED botvars
    /\ UNCHANGED othervars

\* INTENTO 1: Open Food Facts answers
CallOff ==
    /\ pc = "off"
    /\ \E a \in OffAnswers : AttemptReturns("off", a, SearchOffBarcode(a))
    /\ UNCHANGED botvars
    /\ UNCHANGED othervars

\* INTENTO 2: EAN Search answers
CallEan ==
    /\ pc = "ean"
    /\ \E a \in EanAnswers : AttemptReturns("ean", a, SearchEanSearch(a))
    /\ UNCHANGED botvars
    /\ UNCHANGED othervars

\* INTENTO 3: Barcode Lookup answers
CallBarcodeLookup ==
    /\ pc = "bl"
    /\ \E a \in BarcodeLookupAnswers :
          AttemptReturns("bl", a, SearchBarcodeLookup(a))
    /\ UNCHANGED botvars
    /\ UNCHANGED othervars

\* INTENTO 4: UPC Database answers
CallUpc ==
    /\ pc = "upc"
    /\ \E a \in UpcAnswers : AttemptReturns("upc", a, SearchUpcDatabase(a))
    /\ UNCHANGED botvars
    /\ UNCHANGED othervars

\* INTENTO 5: Barcode Database answers; it returns its record or goes on to
\* Barcode Monster
CallBarcodeDatabase ==
    /\ pc = "bdb"
    /\ \E a \in NameOnlyAnswers :
          LET r == SearchBarcodeDatabase(a)
          IN  IF r = ToMonster
              THEN /\ calls' = Append(calls, Call("bdb", a, None))
                   /\ pc' = "monster"
                   /\ UNCHANGED <<op, arg, result, idx, acc>>
              ELSE AttemptReturns("bdb", a, r)
    /\ UNCHANGED botvars
    /\ UNCHANGED othervars

\* Barcode Monster answers inside _search_barcode_database, whose result is
\* the fifth attempt's
CallBarcodeMonster ==
    /\ pc = "monster"
    /\ \E a \in NameOnlyAnswers :
          /\ calls' = Append(calls, Call("monster", a, SearchBarcodeMonster(a)))
          /\ LET r == SearchBarcodeMonster(a)
             IN  IF r # None
                 THEN result' = r /\ pc' = "done"
                 ELSE result' = None /\ pc' = NextAttempt("bdb", arg.image)
          /\ UNCHANGED <<op, arg, idx, acc>>
    /\ UNCHANGED botvars
    /\ UNCHANGED othervars

\* FALLBACK: the label reader answers; the chain returns its record or None
CallLabel ==
    /\ pc = "label"
    /\ \E a \in LabelAnswers :
          /\ calls' = Append(calls, Call("label", a, AnalyzeNutritionLabel(a)))
          /\ result' = AnalyzeNutritionLabel(a)
    /\ pc' = "done"
    /\ UNCHANGED <<op, arg, idx, acc>>
    /\ UNCHANGED botvars
    /\ UNCHANGED othervars

\* a call of _analyze_nutrition_label_with_groq: the completion answers
ApplyLabel ==
    /\ pc = "idle"
    /\ \E a \in LabelAnswers :
          /\ arg' = a
          /\ calls' = Append(calls, Call("label", a, AnalyzeNutritionLabel(a)))
          /\ result' = AnalyzeNutritionLabel(a)
    /\ pc' = "done"
    /\ op' = "label"
    /\ UNCHANGED <<idx, acc>>
    /\ UNCHANGED botvars
    /\ UNCHANGED othervars

\* a call of get_logical_day_start
ApplyDayStart ==
    /\ pc = "idle"
    /\ \E t \in Instants :
          /\ arg' = t
          /\ result' = GetLogicalDayStart(t)
    /\ pc' = "done"
    /\ op' = "day_start"
    /\ UNCHANGED <<calls, idx, acc>>
    /\ UNCHANGED botvars
    /\ UNCHANGED othervars

\* a call of get_logical_day_end
ApplyDayEnd ==
    /\ pc = "idle"
    /\ \E t \in Instants :
          /\ arg' = t
          /\ result' = GetLogicalDayEnd(t)
    /\ pc' = "done"
    /\ op' = "day_end"
    /\ UNCHANGED <<calls, idx, acc>>
    /\ UNCHANGED botvars
    /\ UNCHANGED othervars

\* a call of is_valid_barcode
ApplyIsValidBarcode ==
    /\ pc = "idle"
    /\ \E text \in BarcodeTexts :
          /\ arg' = text
          /\ result' = IsValidBarcode(text)
    /\ pc' = "done"
    /\ op' = "is_valid_barcode"
    /\ UNCHANGED <<calls, idx, acc>>
    /\ UNCHANGED botvars
    /\ UNCHANGED othervars

\* a call of get_nutrition_by_food_name
StartByName ==
    /\ pc = "idle"
    /\ pc' = NameChainOrder[1]
    /\ op' = "by_name"
    /\ arg' = [food_name |-> "arroz"]
    /\ UNCHANGED <<calls, result, idx, acc>>
    /\ UNCHANGED botvars
    /\ UNCHANGED othervars

\* the food name get_nutrition_by_food_name is asked for
LookupName == IF op = "enrich" THEN arg.foods[idx].name ELSE arg.food_name

\* get_nutrition_by_food_name returns r: to its caller, or into Opcion 2 and
\* Opcion 3 of process_gemini_and_enrich, which appends the item's tuple
NameChainReturns(r) ==
    IF op = "enrich"
    THEN /\ acc' = Append(acc,
                 <<arg.foods[idx].name, EstimatedGrams(arg.foods[idx]),
                   IF r # None THEN OptionApi(r)
                   ELSE OptionDefault(arg.foods[idx].name)>>)
         /\ idx' = idx + 1
         /\ pc' = "enrich"
         /\ UNCHANGED result
    ELSE /\ result' = r
         /\ pc' = "done"
         /\ UNCHANGED <<idx, acc>>

\* one name provider has answered with r
NameAttemptReturns(svc, a, r) ==
    /\ calls' = Append(calls, Call(svc, a, r))
    /\ UNCHANGED <<op, arg>>
    /\ IF r = Raised
       THEN result' = Raised /\ pc' = "done" /\ UNCHANGED <<idx, acc>>
       ELSE IF r = None /\ svc = NameChainOrder[1]
       THEN pc' = NameChainOrder[2] /\ UNCHANGED <<result, idx, acc>>
       ELSE NameChainReturns(r)

\* Intento 1: Open Food Facts answers the name search
CallOffByName ==
    /\ pc = "off_name"
    /\ \E a \in OffNameAnswers :
          NameAttemptReturns("off_name", a, SearchOffByName(a, LookupName))
    /\ UNCHANGED botvars
    /\ UNCHANGED othervars

\* Intento 2: USDA FoodData Central answers
CallUsda ==
    /\ pc = "usda"
    /\ \E a \in UsdaAnswers :
          NameAttemptReturns("usda", a, SearchUsdaFoodData(a, LookupName))
    /\ UNCHANGED botvars
    /\ UNCHANGED othervars

\* a call of process_with_gemini: the completion answers
ApplyGemini ==
    /\ pc = "idle"
    /\ \E a \in GeminiAnswers :
          /\ arg' = a
          /\ calls' = Append(calls, [svc |-> "gemini", failed |-> a.kind = "raise",
                                     ret |-> ProcessWithGemini(a)])
          /\ result' = ProcessWithGemini(a)
    /\ pc' = "done"
    /\ op' = "gemini"
    /\ UNCHANGED <<idx, acc>>
    /\ UNCHANGED botvars
    /\ UNCHANGED othervars

\* handle_text_or_barcode / handle_photo: process_gemini_and_enrich on what
\* process_with_gemini returned
StartEnrichFromGemini ==
    /\ pc = "done" /\ op = "gemini"
    /\ result # None
    /\ pc' = "enrich"
    /\ op' = "enrich"
    /\ arg' = [foods |-> result.foods, fromGemini |-> TRUE]
    /\ calls' = <<>>
    /\ result' = None
    /\ idx' = 1
    /\ acc' = <<>>
    /\ UNCHANGED botvars
    /\ UNCHANGED othervars

\* a call of process_gemini_and_enrich on any response
StartEnrich ==
    /\ pc = "idle"
    /\ \E fs \in SeqsUpTo(EnrichFoods, MaxFoods) :
          arg' = [foods |-> fs, fromGemini |-> FALSE]
    /\ pc' = "enrich"
    /\ op' = "enrich"
    /\ idx' = 1
    /\ UNCHANGED <<calls, result, acc>>
    /\ UNCHANGED botvars
    /\ UNCHANGED othervars

\* the loop body up to its first await: an item without a name is skipped,
\* Opcion 1 appends the item's tuple, otherwise the name chain is asked
EnrichItem ==
    /\ pc = "enrich"
    /\ idx <= Len(arg.foods)
    /\ LET food == arg.foods[idx]
       IN  IF food.name = Missing \/ food.name = ""
           THEN /\ idx' = idx + 1
                /\ UNCHANGED <<pc, acc>>
           ELSE IF OptionGroq(food) # None
           THEN /\ acc' = Append(acc, <<food.name, EstimatedGrams(food),
                                        OptionGroq(food)>>)
                /\ idx' = idx + 1
                /\ UNCHANGED pc
           ELSE /\ pc' = NameChainOrder[1]
                /\ UNCHANGED <<idx, acc>>
    /\ UNCHANGED <<op, arg, calls, result>>
    /\ UNCHANGED botvars
    /\ UNCHANGED othervars

\* `return result` after the last item
EnrichReturn ==
    /\ pc = "enrich"
    /\ idx > Len(arg.foods)
    /\ result' = acc
    /\ pc' = "done"
    /\ UNCHANGED <<op, arg, calls, idx, acc>>
    /\ UNCHANGED botvars
    /\ UNCHANGED othervars

Next ==
    \/ ApplyAtwater
    \/ ApplyValidate
    \/ StartBarcodeFromText
    \/ StartBarcodeFromPhoto
    \/ CallOff
    \/ CallEan
    \/ CallBarcodeLookup
    \/ CallUpc
    \/ CallBarcodeDatabase
    \/ CallBarcodeMonster
    \/ CallLabel
    \/ ApplyLabel
    \/ ApplyDayStart
    \/ ApplyDayEnd
    \/ ApplyIsValidBarcode
    \/ StartByName
    \/ CallOffByName
    \/ CallUsda
    \/ ApplyGemini
    \/ StartEnrichFromGemini
    \/ StartEnrich
    \/ EnrichItem
    \/ EnrichReturn
    \/ Return

Spec == Init /\ [][Next]_vars

\* ------------------------------------------------------------------------
\* Message handlers: handle_text_or_barcode, handle_photo
\* ------------------------------------------------------------------------

\* one awaited resolution function, as the handler's trace keeps it
HandlerCall(svc, failed, r) == [svc |-> svc, failed |-> failed, ret |-> r]

\* the food log has room for the foods of one more message
CanLog == Len(food_log) + MaxFoods <= MaxLog

\* the handler has sent its last reply
Replied(text) ==
    /\ handler' = [handler EXCEPT !.reply = text]
    /\ pc' = "replied"

\* a keyword that state.update_data is not given
NotGiven == [tag |-> "NotGiven"]

\* state.set_state(waiting_quantity) and state.update_data(...) of the keys
\* given; a key that is not given keeps its value
OpenSession(nutrition, barcode) ==
    fsm' = [state |-> "waiting_quantity", nutrition_data |-> nutrition,
            barcode |-> IF barcode = NotGiven THEN fsm.barcode ELSE barcode]

\* handle_text_or_barcode starts: the main router gets a text only when no
\* quantity session is open; a barcode goes to the provider chain, any other
\* text to the interpreter
TextArrives ==
    /\ pc = "idle"
    /\ Route(fsm.state, "text") = "text"
    /\ \E text \in Texts :
          /\ IsValidBarcode(text) \/ CanLog
          /\ handler' = [name |-> "text", input |-> text, reply |-> "none"]
          /\ IF IsValidBarcode(text)
             THEN /\ pc' = ChainOrder[1]
                  /\ op' = "barcode"
                  /\ arg' = [image |-> FALSE, code |-> TypedCode(text)]
             ELSE /\ pc' = "gemini"
                  /\ op' = "gemini"
                  /\ arg' = <<>>
    /\ UNCHANGED <<calls, result, idx, acc, invoked, fsm, food_log>>
    /\ UNCHANGED othervars

\* handle_photo starts: the photo is downloaded
PhotoArrives ==
    /\ pc = "idle"
    /\ \E photo \in Photos :
          /\ photo.caption => CanLog
          /\ handler' = [name |-> "photo", input |-> photo, reply |-> "none"]
    /\ pc' = "detect"
    /\ op' = "detect"
    /\ UNCHANGED <<arg, calls, result, idx, acc, invoked, fsm, food_log>>
    /\ UNCHANGED othervars

\* faulty variant: a caption is interpreted whether or not a code was read
AfterDetectorCaptionFirst(code, caption) ==
    IF caption THEN "gemini" ELSE IF code # None THEN "barcode" ELSE "plate"

\* `if detected_barcode:`, then `if not caption or caption.strip() == "":`
AfterDetector(code, caption) ==
    IF code # None THEN "barcode" ELSE IF ~caption THEN "plate" ELSE "gemini"

\* PASO 2: extract_barcode_from_image answers; with a code the provider
\* chain is asked with the image, without a code the caption decides
CallDetector ==
    /\ pc = "detect"
    /\ \E code \in {None, DetectedCode} :
          /\ invoked' = Append(invoked, HandlerCall("detector", FALSE, code))
          /\ op' = AfterDetector(code, handler.input.caption)
          /\ IF op' = "barcode"
             THEN /\ pc' = ChainOrder[1]
                  /\ arg' = [image |-> TRUE, code |-> code]
             ELSE /\ pc' = op'
                  /\ UNCHANGED arg
    /\ UNCHANGED <<calls, result, idx, acc, handler, fsm, food_log>>
    /\ UNCHANGED othervars

\* search_open_food_facts_by_barcode has returned to the handler: a record
\* opens the quantity session, None is answered with "not found"
BarcodeResolved ==
    /\ pc = "done" /\ op = "barcode"
    /\ handler.name # "none"
    /\ invoked' = Append(invoked, HandlerCall("barcode_chain", ~IsRecord(result),
                                              result))
    /\ IF result = Raised
       THEN Replied("error") /\ UNCHANGED fsm
       ELSE IF result # None
       THEN OpenSession(result, arg.code) /\ Replied("ask_quantity")
       ELSE Replied("not_found") /\ UNCHANGED fsm
    /\ UNCHANGED <<op, arg, calls, result, idx, acc, food_log>>
    /\ UNCHANGED othervars

\* faulty variant: the quantity session is opened whatever was returned
PhotoIdentifiedAlways(groq_result) ==
    OpenSession(groq_result, NotGiven) /\ Replied("ask_quantity")

\* `if groq_result and groq_result.food_name not in [...]`: the quantity
\* session is opened without a barcode key, or a description is asked for
PhotoIdentified(groq_result) ==
    IF groq_result # None
       /\ groq_result.food_name
              \notin {"Unknown (Groq Analysis)", "Plato no identificado"}
    THEN OpenSession(groq_result, NotGiven) /\ Replied("ask_quantity")
    ELSE Replied("needs_description") /\ UNCHANGED fsm

\* PASO 3, no code and no caption: analyze_food_plate_with_groq answers
CallPlate ==
    /\ pc = "plate"
    /\ \E a \in PlateAnswers :
          LET r == AnalyzeFoodPlate(a)
          IN  /\ invoked' = Append(invoked, Call("plate", a, r))
              /\ result' = r
              /\ IF r = Raised THEN Replied("error") /\ UNCHANGED fsm
                 ELSE IF r = None
                 THEN pc' = "photo_label" /\ UNCHANGED <<handler, fsm>>
                 ELSE PhotoIdentified(r)
    /\ UNCHANGED <<op, arg, calls, idx, acc, food_log>>
    /\ UNCHANGED othervars

\* `if not groq_result`: _analyze_nutrition_label_with_groq answers
CallLabelFromPhoto ==
    /\ pc = "photo_label"
    /\ \E a \in LabelAnswers :
          LET r == AnalyzeNutritionLabel(a)
          IN  /\ invoked' = Append(invoked, Call("label", a, r))
              /\ result' = r
              /\ IF r = Raised THEN Replied("error") /\ UNCHANGED fsm
                 ELSE PhotoIdentified(r)
    /\ UNCHANGED <<op, arg, calls, idx, acc, food_log>>
    /\ UNCHANGED othervars

\* process_with_gemini answers the handler; its foods go to
\* process_gemini_and_enrich
CallGemini ==
    /\ pc = "gemini"
    /\ \E a \in HandlerGeminiAnswers :
          LET r == ProcessWithGemini(a)
          IN  /\ invoked' = Append(invoked,
                                   HandlerCall("gemini", a.kind # "foods", r))
              /\ IF r = Raised
                 THEN Replied("error") /\ UNCHANGED <<op, arg, idx>>
                 ELSE IF r = None
                 THEN Replied("not_processed") /\ UNCHANGED <<op, arg, idx>>
                 ELSE /\ pc' = "enrich"
                      /\ op' = "enrich"
                      /\ arg' = [foods |-> r.foods, fromGemini |-> TRUE]
                      /\ idx' = 1
                      /\ UNCHANGED handler
    /\ UNCHANGED <<calls, result, acc, fsm, food_log>>
    /\ UNCHANGED othervars

\* process_gemini_and_enrich has returned to the handler: an empty list is
\* answered, any other list is logged
FoodsEnriched ==
    /\ pc = "done" /\ op = "enrich"
    /\ handler.name # "none"
    /\ invoked' = Append(invoked, HandlerCall("enrich", FALSE, [list |-> result]))
    /\ IF result = <<>>
       THEN Replied("no_foods") /\ UNCHANGED idx
       ELSE pc' = "log" /\ idx' = 1 /\ UNCHANGED handler
    /\ UNCHANGED <<op, arg, calls, result, acc, fsm, food_log>>
    /\ UNCHANGED othervars

\* `for food_name, grams, nutrition in enriched_foods`: db.log_food writes
\* the row of one food
LogFood ==
    /\ pc = "log"
    /\ idx <= Len(result)
    /\ food_log' = Append(food_log,
                          LogRow(result[idx][1], result[idx][2], result[idx][3]))
    /\ idx' = idx + 1
    /\ UNCHANGED <<pc, op, arg, calls, result, acc, handler, invoked, fsm>>
    /\ UNCHANGED othervars

\* the summary of the registered foods is sent
FoodsRegistered ==
    /\ pc = "log"
    /\ idx > Len(result)
    /\ Replied("registered")
    /\ UNCHANGED <<op, arg, calls, result, idx, acc, invoked, fsm, food_log>>
    /\ UNCHANGED othervars

\* the handler returns; the session and the food log stay
HandlerReturns ==
    /\ pc = "replied"
    /\ pc' = "idle"
    /\ op' = "none"
    /\ arg' = <<>>
    /\ calls' = <<>>
    /\ result' = None
    /\ idx' = 0
    /\ acc' = <<>>
    /\ handler' = NoHandler
    /\ invoked' = <<>>
    /\ UNCHANGED <<fsm, food_log>>
    /\ UNCHANGED othervars

NextBot ==
    \/ TextArrives
    \/ PhotoArrives
    \/ CallDetector
    \/ CallOff
    \/ CallEan
    \/ CallBarcodeLookup
    \/ CallUpc
    \/ CallBarcodeDatabase
    \/ CallBarcodeMonster
    \/ CallLabel
    \/ BarcodeResolved
    \/ CallPlate
    \/ CallLabelFromPhoto
    \/ CallGemini
    \/ EnrichItem
    \/ EnrichReturn
    \/ FoodsEnriched
    \/ LogFood
    \/ FoodsRegistered
    \/ HandlerReturns

SpecBot == Init /\ [][NextBot]_vars

\* ------------------------------------------------------------------------
\* Message handlers with the quantity session: handle_barcode_quantity
\* ------------------------------------------------------------------------

\* faulty variant: the session is left open
ClearNever == UNCHANGED fsm

\* state.clear(): the state and the data of the session are dropped
Clear == fsm' = NoSession

\* `return` after the reply to a text that is no quantity: the session
\* stays as it is
InvalidQuantity(check) == UNCHANGED fsm

\* handle_barcode_quantity, from the reply of the user to its own reply.
\* A text that is no quantity between 1 and 10000 is answered and nothing
\* else happens.  Otherwise the pending record is read from the session;
\* without one the session is cleared.  With one the totals are computed,
\* the row is written with the barcode of the session, the summary is sent
\* and the session is cleared; when a database call raises, the error is
\* sent and the session is cleared too
QuantityArrives ==
    /\ pc = "idle"
    /\ \E text \in QuantityTexts, db \in DbOutcomes :
          LET grams == ParseGrams(text).grams
              check == QuantityCheck(ParseGrams(text))
          IN  /\ Route(fsm.state, text.kind) = "quantity"
              /\ IF check # "ok"
                 THEN /\ db = "ok"
                      /\ handler' = [name |-> "quantity", input |-> text,
                                     reply |-> check]
                      /\ InvalidQuantity(check)
                      /\ UNCHANGED food_log
                 ELSE IF fsm.nutrition_data = None
                 THEN /\ db = "ok"
                      /\ handler' = [name |-> "quantity", input |-> text,
                                     reply |-> "context_lost"]
                      /\ Clear
                      /\ UNCHANGED food_log
                 ELSE /\ Len(food_log) < MaxLog
                      /\ handler' = [name |-> "quantity", input |-> text,
                                     reply |-> IF db = "ok" THEN "registered"
                                               ELSE "error"]
                      /\ food_log' =
                            IF db = "fails" THEN food_log
                            ELSE Append(food_log,
                                        QuantityLogRow(fsm.nutrition_data,
                                                       grams, fsm.barcode))
                      /\ Clear
    /\ pc' = "replied"
    /\ UNCHANGED <<op, arg, calls, result, idx, acc, invoked>>
    /\ UNCHANGED othervars

\* what search_open_food_facts_by_barcode returns to a handler: a record,
\* or None when no provider knows the code
ChainResults ==
    {None, NutritionalData("Yogur", 6150, 350, 470, 300, "Open Food Facts")}

\* what the analysis of a photo without code and caption comes to
\* (analyze_food_plate_with_groq, then _analyze_nutrition_label_with_groq)
AnalysisResults ==
    {None, NutritionalData("Lasana", 13250, 800, 1200, 600,
                           "groq_plate_analysis")}

\* what process_with_gemini and process_gemini_and_enrich come to: None,
\* or the list of (name, grams, record) of the foods
EnrichedFood ==
    <<"huevos", 120, NutritionalData("huevos", 15500, 1300, 110, 1100, "groq")>>

EnrichedLists == SeqsUpTo({EnrichedFood}, MaxFoods)

\* `nutrition_data = await search_open_food_facts_by_barcode(...)` returns
ChainReturns ==
    /\ pc = ChainOrder[1] /\ op = "barcode"
    /\ handler.name # "none"
    /\ \E r \in ChainResults : result' = r
    /\ pc' = "done"
    /\ UNCHANGED <<op, arg, calls, idx, acc>>
    /\ UNCHANGED botvars
    /\ UNCHANGED othervars

\* PASO 3 of handle_photo, no code and no caption: the analysis returns
PhotoAnalysed ==
    /\ pc = "plate"
    /\ \E r \in AnalysisResults :
          /\ invoked' = Append(invoked, HandlerCall("plate", r = None, r))
          /\ result' = r
          /\ PhotoIdentified(r)
    /\ UNCHANGED <<op, arg, calls, idx, acc, food_log>>
    /\ UNCHANGED othervars

\* process_with_gemini and process_gemini_and_enrich return
Interpreted ==
    /\ pc = "gemini"
    /\ \/ /\ invoked' = Append(invoked, HandlerCall("gemini", TRUE, None))
          /\ Replied("not_processed")
          /\ UNCHANGED <<op, result>>
       \/ \E list \in EnrichedLists :
             /\ invoked' = Append(invoked,
                                  HandlerCall("gemini", FALSE, [list |-> list]))
             /\ result' = list
             /\ op' = "enrich"
             /\ pc' = "done"
             /\ UNCHANGED handler
    /\ UNCHANGED <<arg, calls, idx, acc, fsm, food_log>>
    /\ UNCHANGED othervars

\* db.log_food raises in the loop over the foods: `except Exception`
\* answers with the error; the rows written before stay
LogFoodFails ==
    /\ pc = "log"
    /\ idx <= Len(result)
    /\ Replied("error")
    /\ UNCHANGED <<op, arg, calls, result, idx, acc, invoked, fsm, food_log>>
    /\ UNCHANGED othervars

NextSession ==
    \/ TextArrives
    \/ PhotoArrives
    \/ QuantityArrives
    \/ CallDetector
    \/ ChainReturns
    \/ BarcodeResolved
    \/ PhotoAnalysed
    \/ Interpreted
    \/ FoodsEnriched
    \/ LogFood
    \/ LogFoodFails
    \/ FoodsRegistered
    \/ HandlerReturns

SpecSession == Init /\ [][NextSession]_vars

\* ------------------------------------------------------------------------
\* The database commands: /estado, /historial, /deshacer, /guardar_plato
\* ------------------------------------------------------------------------

\* the variables the database commands leave alone
nodbvars == <<corevars, botvars, detector, loopvars, uservars>>

\* time passes
ClockAdvances ==
    /\ \E t \in DbInstants : Before(now, t) /\ now' = t
    /\ UNCHANGED <<food_logs, saved_meals, serial, db_op>>
    /\ UNCHANGED nodbvars

\* db.log_food, as the handlers call it for a resolved food: one row is
\* inserted with the next log_id and the current timestamp
DbLogFood ==
    /\ serial.log_id <= MaxRows
    /\ \E u \in Users, kcal \in LoggedKcal :
          /\ food_logs' =
                food_logs \cup {FoodLogRow(serial.log_id, u, kcal, now)}
          /\ db_op' = DbOp("log_food", u, kcal, serial.log_id)
    /\ serial' = [serial EXCEPT !.log_id = @ + 1]
    /\ UNCHANGED <<now, saved_meals>>
    /\ UNCHANGED nodbvars

\* /estado: get_today_totals
CmdEstado ==
    /\ \E u \in Users :
          db_op' = DbOp("estado", u, now, GetTodayTotals(food_logs, u, now))
    /\ UNCHANGED <<now, food_logs, saved_meals, serial>>
    /\ UNCHANGED nodbvars

\* /historial YYYY-MM-DD: get_day_history of that date at 00:00:00
CmdHistorial ==
    /\ \E u \in Users, d \in MaxDay .. MaxDay + 1 :
          LET target_date == Datetime(d, 0, 0, 0, 0)
          IN  db_op' = DbOp("historial", u, target_date,
                            GetDayHistory(food_logs, u, target_date))
    /\ UNCHANGED <<now, food_logs, saved_meals, serial>>
    /\ UNCHANGED nodbvars

\* /deshacer: delete_last_entry, then the summary of today
CmdUndo ==
    /\ \E u \in Users :
          IF LastEntries(food_logs, u) = {}
          THEN /\ db_op' = DbOp("deshacer", u, now,
                                [success |-> FALSE,
                                 totals |-> GetTodayTotals(food_logs, u, now)])
               /\ UNCHANGED food_logs
          ELSE \E r \in LastEntries(food_logs, u) :
                  /\ food_logs' = food_logs \ {r}
                  /\ db_op' = DbOp("deshacer", u, now,
                                   [success |-> TRUE,
                                    totals |-> GetTodayTotals(food_logs \ {r},
                                                              u, now)])
    /\ UNCHANGED <<now, saved_meals, serial>>
    /\ UNCHANGED nodbvars

\* /guardar_plato name: the foods of today are summed and saved under the
\* name; without foods today nothing is saved
CmdSaveMeal ==
    /\ \E u \in Users, meal_name \in MealNames :
          LET today == GetDayHistory(food_logs, u, now)
              saved == SaveMeal(saved_meals, serial.meal_id, u, meal_name,
                                SumCalories(today.food_logs))
          IN  /\ (today.food_logs # {} /\ saved.ret # -1) =>
                    serial.meal_id <= MaxMeals
              /\ IF today.food_logs = {}
                 THEN /\ db_op' = DbOp("guardar_plato", u, meal_name,
                                       [reply |-> "no_foods", meal_id |-> 0])
                      /\ UNCHANGED <<saved_meals, serial>>
                 ELSE /\ saved_meals' = saved.table
                      /\ db_op' = DbOp("guardar_plato", u, meal_name,
                                       [reply |-> IF saved.ret = -1
                                                  THEN "exists" ELSE "saved",
                                        meal_id |-> saved.ret])
                      /\ serial' = IF saved.ret = -1 THEN serial
                                   ELSE [serial EXCEPT !.meal_id = @ + 1]
    /\ UNCHANGED <<now, food_logs>>
    /\ UNCHANGED nodbvars

\* db.delete_saved_meal
DbDeleteSavedMeal ==
    /\ \E u \in Users, meal_name \in MealNames :
          LET deleted == DeleteSavedMeal(saved_meals, u, meal_name)
          IN  /\ saved_meals' = deleted.table
              /\ db_op' = DbOp("delete_saved_meal", u, meal_name, deleted.ret)
    /\ UNCHANGED <<now, food_logs, serial>>
    /\ UNCHANGED nodbvars

NextDb ==
    \/ ClockAdvances
    \/ DbLogFood
    \/ CmdEstado
    \/ CmdHistorial
    \/ CmdUndo
    \/ CmdSaveMeal
    \/ DbDeleteSavedMeal

SpecDb == Init /\ [][NextDb]_vars

\* ------------------------------------------------------------------------
\* The barcode detector: the search over rotations and transforms
\* ------------------------------------------------------------------------

\* the variables the detector leaves alone
nodetvars == <<corevars, botvars, dbvars, loopvars, uservars>>

\* a call of _try_pyzbar_decode on what pyzbar decoded
ApplyTryDecode ==
    /\ detector.pc = "idle"
    /\ \E decoded \in DecodedLists :
          detector' = Search("decoded", 0, 0, <<>>, decoded,
                             TryPyzbarDecode(decoded))
    /\ UNCHANGED nodetvars

\* extract_barcode_from_image opens the image; an image that cannot be
\* opened is answered with None
StartSearch ==
    /\ detector.pc = "idle"
    /\ \E readable \in BOOLEAN :
          detector' =
              IF readable
              THEN Search("search", 1, 1, <<>>, [readable |-> TRUE], None)
              ELSE Search("done", 0, 0, <<>>, [readable |-> FALSE], None)
    /\ UNCHANGED nodetvars

\* the transforms that have raised so far
Raises(attempts) ==
    Cardinality({k \in 1 .. Len(attempts) : attempts[k].ret = Raised})

\* one attempt: the transform of the strategy at hand is applied to the
\* rotated image and _try_pyzbar_decode is asked; the first strategy has no
\* transform, the transforms of the others may raise
Attempt ==
    /\ detector.pc = "search"
    /\ \E ret \in {TryPyzbarDecode(d) : d \in SearchDecodes}
                  \cup (IF detector.strategy > 1
                           /\ Raises(detector.attempts) < MaxRaises
                        THEN {Raised} ELSE {}) :
          LET attempts ==
                  Append(detector.attempts,
                         [angle |-> RotationAngles[detector.angle],
                          strategy |-> Strategies[detector.strategy],
                          ret |-> ret])
          IN  detector' =
                  IF ~SearchGoesOn(ret)
                  THEN Search("done", detector.angle, detector.strategy,
                              attempts, detector.arg,
                              IF ret = Raised THEN None ELSE ret)
                  ELSE IF detector.strategy < Len(Strategies)
                  THEN Search("search", detector.angle,
                              detector.strategy + 1, attempts, detector.arg,
                              None)
                  ELSE IF detector.angle < Len(RotationAngles)
                  THEN Search("search", detector.angle + 1, 1, attempts,
                              detector.arg, None)
                  ELSE Search("done", detector.angle, detector.strategy,
                              attempts, detector.arg, None)
    /\ UNCHANGED nodetvars

\* the detector has returned to its caller
DetectorReturns ==
    /\ detector.pc \in {"decoded", "done"}
    /\ detector' = NoSearch
    /\ UNCHANGED nodetvars

NextDetector ==
    \/ ApplyTryDecode
    \/ StartSearch
    \/ Attempt
    \/ DetectorReturns

SpecDetector == Init /\ [][NextDetector]_vars

\* ------------------------------------------------------------------------
\* The event loop: the tasks of handle_text_or_barcode of several users
\* ------------------------------------------------------------------------

\* the variables the event loop leaves alone
noloopvars == <<corevars, botvars, dbvars, detector, uservars>>

\* dp.start_polling: an update of a user arrives and its handler becomes a
\* task of the loop; the text is a barcode or describes food
UpdateArrives(u) ==
    /\ tasks[u] = IdleTask
    /\ \E input \in {"barcode", "food"} :
          tasks' = [tasks EXCEPT ![u] = Task("start", TRUE, input)]
    /\ UNCHANGED running
    /\ UNCHANGED noloopvars

\* the point a task that runs on from an await gets to: the next await,
\* the completion call of process_with_gemini, or the end of the handler
NextPoint(task) ==
    IF task.at = "start" THEN "typing"
    ELSE IF task.at = "typing"
         THEN IF task.input = "barcode" THEN "chain" ELSE "completion"
    ELSE IF task.at = "chain" THEN "reply"
    ELSE IF task.at = "enrich" THEN "db"
    ELSE IF task.at = "db" THEN "reply"
    ELSE "idle"

\* the loop runs a task that can run on, up to its next await.  At
\* groq_client.chat.completions.create, a call of the synchronous client
\* that is not awaited, the task keeps the thread until the call returns
RunTask(u) ==
    /\ running = NoTask
    /\ tasks[u].ready
    /\ LET point == NextPoint(tasks[u])
       IN  /\ tasks' = [tasks EXCEPT ![u] =
                           IF point = "idle" THEN IdleTask
                           ELSE Task(point, FALSE, tasks[u].input)]
           /\ running' = IF point = "completion" THEN u ELSE NoTask
    /\ UNCHANGED noloopvars

\* the I/O a task awaits is done: the task can run on
IoCompletes(u) ==
    /\ tasks[u].at \in Awaits
    /\ ~tasks[u].ready
    /\ tasks' = [tasks EXCEPT ![u].ready = TRUE]
    /\ UNCHANGED running
    /\ UNCHANGED noloopvars

\* the completion call returns: process_with_gemini parses the answer and
\* the handler runs on to its next await: the enrichment's requests, the
\* database when no item needs a lookup, or the reply when nothing was
\* understood
CompletionReturns(u) ==
    /\ tasks[u].at = "completion"
    /\ running = u
    /\ \E point \in {"enrich", "db", "reply"} :
          tasks' = [tasks EXCEPT ![u] = Task(point, FALSE, tasks[u].input)]
    /\ running' = NoTask
    /\ UNCHANGED noloopvars

NextLoop ==
    \/ \E u \in Users : UpdateArrives(u)
    \/ \E u \in Users : RunTask(u)
    \/ \E u \in Users : IoCompletes(u)
    \/ \E u \in Users : CompletionReturns(u)

SpecLoop == Init /\ [][NextLoop]_vars

\* ------------------------------------------------------------------------
\* The users table: concurrent calls of get_or_create_user
\* ------------------------------------------------------------------------

\* the variables get_or_create_user leaves alone
nouservars == <<corevars, botvars, dbvars, detector, loopvars>>

\* a handler calls db.get_or_create_user(user_id, first_name) and takes a
\* connection of the pool
CallGetOrCreate(c) ==
    /\ callers[c] = IdleCall
    /\ \E u \in Users :
          callers' = [callers EXCEPT ![c] = GetOrCreate("select", u, FALSE)]
    /\ UNCHANGED users
    /\ UNCHANGED nouservars

\* SELECT * FROM users WHERE user_id = $1, then `if row: return User(...)`
SelectUser(c) ==
    /\ callers[c].at = "select"
    /\ callers' = [callers EXCEPT ![c] =
                      IF users[callers[c].user_id] > 0
                      THEN GetOrCreate("returned", callers[c].user_id, TRUE)
                      ELSE GetOrCreate("insert", callers[c].user_id, FALSE)]
    /\ UNCHANGED users
    /\ UNCHANGED nouservars

\* INSERT INTO users: user_id is the PRIMARY KEY, so the INSERT of an id
\* that has a row by now raises UniqueViolationError, which the function
\* does not catch
InsertUser(c) ==
    /\ callers[c].at = "insert"
    /\ IF users[callers[c].user_id] > 0
       THEN /\ callers' = [callers EXCEPT ![c].at = "raised"]
            /\ UNCHANGED users
       ELSE /\ users' = [users EXCEPT ![callers[c].user_id] = @ + 1]
            /\ callers' = [callers EXCEPT ![c].at = "reselect"]
    /\ UNCHANGED nouservars

\* the second SELECT, then `return User(...)`
ReselectUser(c) ==
    /\ callers[c].at = "reselect"
    /\ callers' = [callers EXCEPT ![c] =
                      GetOrCreate("returned", callers[c].user_id, TRUE)]
    /\ UNCHANGED users
    /\ UNCHANGED nouservars

\* the handler goes on with the user, or answers with the error
CallEnds(c) ==
    /\ callers[c].at \in {"returned", "raised"}
    /\ callers' = [callers EXCEPT ![c] = IdleCall]
    /\ UNCHANGED users
    /\ UNCHANGED nouservars

NextUsers ==
    \/ \E c \in Callers : CallGetOrCreate(c)
    \/ \E c \in Callers : SelectUser(c)
    \/ \E c \in Callers : InsertUser(c)
    \/ \E c \in Callers : ReselectUser(c)
    \/ \E c \in Callers : CallEnds(c)

SpecUsers == Init /\ [][NextUsers]_vars

\* ------------------------------------------------------------------------
\* Claims
\* ------------------------------------------------------------------------

\* C3: reconcile (_validate_and_fix_calories) returns the reported value r
\* unchanged when the Atwater value a is 0, a when |r - a| / a > 0.20, and r
\* otherwise (a deviation of exactly 0.20 is accepted); for p=10, c=20, f=5
\* a reported 196.4 is kept and a reported 206.3 is replaced by 165.0.
C3_Reconcile ==
    (pc = "done" /\ op = "validate") =>
        LET r == arg[1]
            a == AtwaterKcal(arg[2], arg[3], arg[4])
        IN  /\ (a = 0) => (result = r)
            /\ (a > 0 /\ 5 * Abs(r - a) > a) => (result = a)
            /\ (a > 0 /\ 5 * Abs(r - a) <= a) => (result = r)
            /\ (arg = <<19640, 10 * Gram, 20 * Gram, 5 * Gram>>) => (result = 19640)
            /\ (arg = <<20630, 10 * Gram, 20 * Gram, 5 * Gram>>) => (result = 16500)

\* C3 witness: a report exactly 20 % above 165.0 kcal was reconciled and kept
C3_Witness ==
    /\ pc = "done" /\ op = "validate"
    /\ arg = <<19800, 10 * Gram, 20 * Gram, 5 * Gram>>
    /\ result = 19800

\* C4: _atwater_kcal is total and returns protein*4 + carbs*4 + fat*9
\* rounded to one decimal: a number with one decimal place, nearest to the
\* exact sum, and never an error.
C4_Atwater ==
    (pc = "done" /\ op = "atwater") =>
        LET exact == 4 * arg[1] + 4 * arg[2] + 9 * arg[3]
        IN  /\ result \in Int
            /\ result % Tenth = 0
            /\ 2 * Abs(result - exact) <= Tenth

\* C4 witness: 0.01 g protein and 0.03 g fat give 0.31, returned as 0.3
C4_Witness ==
    /\ pc = "done" /\ op = "atwater"
    /\ arg = <<1, 0, 3>>
    /\ result = 30

\* the records an operation has handed back to its caller
ReturnedRecords ==
    IF pc # "done" THEN {}
    ELSE IF op \in {"barcode", "by_name"}
    THEN (IF IsRecord(result) THEN {result} ELSE {})
    ELSE IF op = "enrich"
    THEN {result[i][3] : i \in 1 .. Len(result)}
    ELSE {}

OwnAtwater(r) ==
    AtwaterKcal(r.protein_per_100g, r.carbs_per_100g, r.fat_per_100g)

HasMacros(r) ==
    r.protein_per_100g # 0 \/ r.carbs_per_100g # 0 \/ r.fat_per_100g # 0

\* C1: no record handed back by a resolution path carries calories taken on
\* trust: its calories_per_100g is the Atwater value of its own macros or a
\* value that _validate_and_fix_calories lets stand for those macros.  (The
\* code breaks it: the barcode providers' calories are returned as reported.)
C1_CalorieIntegrity ==
    \A r \in ReturnedRecords :
        \/ r.calories_per_100g = OwnAtwater(r)
        \/ r.calories_per_100g =
               ValidateAndFixCalories(r.calories_per_100g, r.protein_per_100g,
                                      r.carbs_per_100g, r.fat_per_100g)

\* the records whose calories went through _validate_and_fix_calories:
\* Opcion 1 and Opcion 2 of process_gemini_and_enrich, and a label reading
\* with macros (reconciled when a calorie figure was read)
ReconciledRecords ==
    {r \in ReturnedRecords :
        \/ op = "enrich" /\ r.source \in {"groq_atwater", "off", "usda"}
        \/ r.source = "groq_image_analysis" /\ HasMacros(r)}

\* C2 as stated: after reconciliation calories_per_100g equals
\* round(protein*4 + carbs*4 + fat*9, 1) of the record's own macros.
C2_Original ==
    \A r \in ReconciledRecords : r.calories_per_100g = OwnAtwater(r)

\* C2 as amended: after reconciliation calories_per_100g deviates from the
\* Atwater value of the record's own macros by at most 20 % of that value;
\* when the Atwater value is 0 the reported figure is kept.
C2_WithinTolerance ==
    \A r \in ReconciledRecords :
        \/ OwnAtwater(r) = 0
        \/ 5 * Abs(r.calories_per_100g - OwnAtwater(r)) <= OwnAtwater(r)

\* C2 witness: a reported 180.0 kcal against an Atwater value of 165.0 went
\* through Opcion 1 and was kept
C2_Witness ==
    /\ pc = "done" /\ op = "enrich"
    /\ \E i \in 1 .. Len(result) :
          /\ result[i][3].source = "groq_atwater"
          /\ result[i][3].calories_per_100g = 180 * Gram
          /\ OwnAtwater(result[i][3]) = 165 * Gram

\* C5: every record that process_gemini_and_enrich returns for a food that
\* process_with_gemini normalised has calories_per_100g equal to the Atwater
\* value of its own rounded per-100g macros.  (The code breaks it: calories
\* and macros are scaled and rounded separately.)
C5_TextPathAtwater ==
    (pc = "done" /\ op = "enrich" /\ arg.fromGemini) =>
        \A i \in 1 .. Len(result) :
            result[i][3].calories_per_100g = OwnAtwater(result[i][3])

IsProviderCall(c) == c.svc \in {"off", "ean", "bl", "upc", "bdb"}

ProviderCalls == SelectSeq(calls, IsProviderCall)

\* C6: within one call of search_open_food_facts_by_barcode the providers
\* are asked one after another in the order Open Food Facts, EAN Search,
\* Barcode Lookup, UPC Database, Barcode Database; a provider is asked only
\* if every provider before it was asked and returned nothing; the first
\* record returned is the call's result, unmerged, and no later provider is
\* asked.
C6_ChainOrder ==
    (op = "barcode") =>
        /\ Len(ProviderCalls) <= 5
        /\ \A i \in 1 .. Len(ProviderCalls) :
              /\ ProviderCalls[i].svc = <<"off", "ean", "bl", "upc", "bdb">>[i]
              /\ \A j \in 1 .. (i - 1) : ProviderCalls[j].ret = None
        /\ \A i \in 1 .. Len(calls) :
              (IsProviderCall(calls[i]) /\ IsRecord(calls[i].ret)) =>
                  /\ i = Len(calls)
                  /\ pc = "done"
                  /\ result = calls[i].ret
        /\ (pc = "done" /\ IsRecord(result)) => result = calls[Len(calls)].ret

\* C6 witness: the third provider answered after the first two returned
\* nothing
C6_Witness ==
    /\ pc = "done" /\ op = "barcode"
    /\ Len(calls) = 3
    /\ IsRecord(result)
    /\ result.source = "barcode_lookup"

\* C7: a provider's record is accepted only if one of calories, protein,
\* carbs, fat is non-zero; no provider call of the barcode chain or of the
\* name chain returns an all-zero record.  (The code breaks it: EAN Search,
\* Barcode Database, Barcode Monster and the Open Food Facts name search
\* return all-zero records.)
C7_AllZeroIsAbsence ==
    (op \in {"barcode", "by_name"}) =>
        \A i \in 1 .. Len(calls) :
            (calls[i].svc # "label" /\ IsRecord(calls[i].ret)) =>
                \/ calls[i].ret.calories_per_100g # 0
                \/ HasMacros(calls[i].ret)

\* C8: a provider that fails (timeout, status other than 200, malformed
\* payload, missing fields, exception) yields no result, the chain goes on
\* to the next provider, and the chain returns a record or None, never an
\* exception.  (The code breaks it: Barcode Database and Barcode Monster
\* answer a payload without name fields with a placeholder record.)
C8_FailureIsolation ==
    (op \in {"barcode", "by_name"}) =>
        /\ result # Raised
        /\ \A i \in 1 .. Len(calls) :
              calls[i].failed =>
                  /\ calls[i].ret = None
                  /\ (i = Len(calls) /\ pc = "done") =>
                         calls[i].svc \in {"monster", "label", "usda"}
                         \/ (calls[i].svc = "bdb" /\ ~arg.image)

AllProvidersAsked == Len(ProviderCalls) = 5

NothingFound ==
    \A i \in 1 .. Len(calls) : calls[i].svc # "label" => calls[i].ret = None

LabelAsked == \E i \in 1 .. Len(calls) : calls[i].svc = "label"

\* C9: in the barcode chain the label reader is asked if and only if all
\* five providers were asked and returned nothing and an image came with
\* the barcode; it is never asked earlier, and for a typed barcode the
\* chain returns None without asking it.
C9_LabelFallback ==
    (op = "barcode") =>
        /\ LabelAsked =>
              /\ arg.image
              /\ AllProvidersAsked
              /\ NothingFound
              /\ calls[Len(calls)].svc = "label"
              /\ \A i \in 1 .. (Len(calls) - 1) : calls[i].svc # "label"
        /\ (pc = "done" /\ arg.image /\ AllProvidersAsked /\ NothingFound)
              => LabelAsked
        /\ (pc = "done" /\ ~arg.image /\ AllProvidersAsked /\ NothingFound)
              => (result = None /\ ~LabelAsked)

\* C9 witness: all providers returned nothing for a photographed code and
\* the label reader produced the record
C9_Witness ==
    /\ pc = "done" /\ op = "barcode"
    /\ arg.image
    /\ AllProvidersAsked
    /\ LabelAsked
    /\ IsRecord(result)
    /\ result.source = "groq_image_analysis"

\* C10: get_nutrition_by_food_name asks Open Food Facts first and USDA
\* second; USDA is asked if and only if Open Food Facts returned nothing,
\* and None is returned if and only if both returned nothing.
C10_NameChainOrder ==
    /\ (op \in {"by_name", "enrich"}) =>
          \A i \in 1 .. Len(calls) :
              /\ calls[i].svc = "usda" =>
                    /\ i > 1
                    /\ calls[i - 1].svc = "off_name"
                    /\ calls[i - 1].ret = None
              /\ (calls[i].svc = "off_name" /\ i < Len(calls)
                  /\ calls[i].ret = None) => calls[i + 1].svc = "usda"
              /\ (calls[i].svc = "off_name" /\ i < Len(calls)
                  /\ calls[i].ret # None) => calls[i + 1].svc = "off_name"
    /\ (op = "by_name" /\ pc = "done") =>
          /\ Len(calls) \in {1, 2}
          /\ calls[1].svc = "off_name"
          /\ (Len(calls) = 2) <=> (calls[1].ret = None)
          /\ result = calls[Len(calls)].ret
          /\ (result = None) <=> (\A i \in 1 .. Len(calls) : calls[i].ret = None)
    /\ (op = "by_name" /\ pc = "usda") =>
          /\ Len(calls) = 1
          /\ calls[1].svc = "off_name"
          /\ calls[1].ret = None

\* C10 witness: Open Food Facts returned nothing and USDA's record is the
\* result
C10_Witness ==
    /\ pc = "done" /\ op = "by_name"
    /\ Len(calls) = 2
    /\ calls[1].ret = None
    /\ IsRecord(result)
    /\ result.source = "usda"

\* the answers a provider of the barcode chain can give
ProviderAnswers(svc) ==
    CASE svc = "off" -> OffAnswers
      [] svc = "ean" -> EanAnswers
      [] svc = "bl" -> BarcodeLookupAnswers
      [] svc = "upc" -> UpcAnswers
      [] OTHER -> NameOnlyAnswers

\* what a provider of the barcode chain returns for an answer
ProviderReturn(svc, a) ==
    CASE svc = "off" -> SearchOffBarcode(a)
      [] svc = "ean" -> SearchEanSearch(a)
      [] svc = "bl" -> SearchBarcodeLookup(a)
      [] svc = "upc" -> SearchUpcDatabase(a)
      [] OTHER -> IF SearchBarcodeDatabase(a) = ToMonster
                  THEN SearchBarcodeMonster(a)
                  ELSE SearchBarcodeDatabase(a)

\* a provider that can only return a product name: every record it returns
\* has all four nutrient fields zero
NameOnly(svc) ==
    \A a \in ProviderAnswers(svc) :
        IsRecord(ProviderReturn(svc, a)) =>
            /\ ProviderReturn(svc, a).calories_per_100g = 0
            /\ ~HasMacros(ProviderReturn(svc, a))

\* C11: in the barcode chain no provider that can only return a product
\* name is asked before a provider that can return nutrient values; the
\* name-only providers come last.  (The code breaks it: EAN Search, which
\* returns names only, is asked second, before Barcode Lookup.)
C11_NameOnlyLast ==
    (op = "barcode") =>
        \A i \in 1 .. Len(ProviderCalls) : \A j \in (i + 1) .. Len(ProviderCalls) :
            NameOnly(ProviderCalls[i].svc) => NameOnly(ProviderCalls[j].svc)

\* `if not name: continue`
Named(food) == food.name # Missing /\ food.name # ""

\* the named food items of the response at hand, in input order
NamedFoods == SelectSeq(arg.foods, Named)

\* C12: for every response and every outcome of the name providers,
\* process_gemini_and_enrich returns exactly one (name, grams, record) tuple
\* per named food item, in input order; while it runs, the list built so far
\* holds one tuple per named item already passed.
C12_EnrichTotality ==
    /\ (op = "enrich" /\ pc # "done") =>
          Len(acc) = Len(SelectSeq(SubSeq(arg.foods, 1, idx - 1), Named))
    /\ (op = "enrich" /\ pc = "done") =>
          /\ Len(result) = Len(NamedFoods)
          /\ \A i \in 1 .. Len(NamedFoods) :
                /\ result[i][1] = NamedFoods[i].name
                /\ result[i][2] = EstimatedGrams(NamedFoods[i])
                /\ IsRecord(result[i][3])
                /\ result[i][3].source \in
                       {"groq_atwater", "off", "usda", "default"}

\* C12 witness: two named items, both name providers failed for the first,
\* and it still has its tuple, before the second item's
C12_Witness ==
    /\ op = "enrich" /\ pc = "done"
    /\ Len(arg.foods) = 2 /\ Len(result) = 2
    /\ arg.foods[1].name = "pollo" /\ arg.foods[2].name = "arroz"
    /\ \E i \in 1 .. Len(calls) : calls[i].svc = "usda" /\ calls[i].failed
    /\ result[1][1] = "pollo" /\ result[1][3].source = "default"
    /\ result[2][1] = "arroz"

\* a named food item whose per-100g fields are absent or not numeric
Incomplete(food) == Named(food) /\ food.fields # "complete"

IsOffNameAt(i) == calls[i].svc = "off_name"

\* the places in the trace where get_nutrition_by_food_name was entered
LookupStarts == SelectSeq([i \in 1 .. Len(calls) |-> i], IsOffNameAt)

\* what the k-th call of get_nutrition_by_food_name returned
LookupOutcome(k) ==
    LET j == LookupStarts[k]
    IN  IF calls[j].ret # None THEN calls[j].ret
        ELSE IF j < Len(calls) /\ calls[j + 1].svc = "usda" THEN calls[j + 1].ret
        ELSE None

\* how many of the first i named items are incomplete
LookupsUpTo(i) == Len(SelectSeq(SubSeq(NamedFoods, 1, i), Incomplete))

\* C13: for each food item the name chain is consulted only if the item's
\* per-100g macro fields are incomplete or not numeric, once per such item;
\* the default record (10 / 20 / 5 g per 100 g, 165.0 kcal, source
\* 'default') is assigned if and only if the fields are incomplete and the
\* name chain returned nothing.
C13_EnrichFallbackOrder ==
    /\ (op = "enrich" /\ pc \in {"off_name", "usda"}) =>
          Incomplete(arg.foods[idx])
    /\ (op = "enrich" /\ pc = "done") =>
          /\ Len(LookupStarts) = Len(SelectSeq(arg.foods, Incomplete))
          /\ Len(result) = Len(NamedFoods)
          /\ \A i \in 1 .. Len(result) :
                /\ (result[i][3].source = "default") <=>
                      /\ Incomplete(NamedFoods[i])
                      /\ LookupsUpTo(i) <= Len(LookupStarts)
                      /\ LookupOutcome(LookupsUpTo(i)) = None
                /\ (result[i][3].source = "default") =>
                      result[i][3] =
                          NutritionalData(NamedFoods[i].name, 165 * Gram,
                                          10 * Gram, 20 * Gram, 5 * Gram,
                                          "default")

\* C13 witness: USDA answered for the first incomplete item, nothing was
\* found for the second, which got the default record
C13_Witness ==
    /\ op = "enrich" /\ pc = "done"
    /\ Len(result) = 2
    /\ Incomplete(arg.foods[1]) /\ Incomplete(arg.foods[2])
    /\ result[1][3].source = "usda"
    /\ result[2][3].source = "default"
    /\ Len(LookupStarts) = 2

\* C14: a food item that carries complete per-100g macros gets its own
\* figures with the calories reconciled, and get_nutrition_by_food_name is
\* not invoked for it.
C14_EnrichTrustBoundary ==
    /\ (op = "enrich" /\ pc \in {"off_name", "usda"}) =>
          arg.foods[idx].fields # "complete"
    /\ (op = "enrich") =>
          Len(LookupStarts) <=
              Len(SelectSeq(SubSeq(arg.foods, 1,
                                   IF idx > Len(arg.foods) THEN Len(arg.foods)
                                   ELSE idx),
                            Incomplete))
    /\ (op = "enrich" /\ pc = "done") =>
          /\ Len(result) = Len(NamedFoods)
          /\ \A i \in 1 .. Len(result) :
                NamedFoods[i].fields = "complete" =>
                    result[i][3] =
                        NutritionalData(
                            NamedFoods[i].name,
                            ValidateAndFixCalories(
                                NamedFoods[i].calories_per_100g,
                                NamedFoods[i].protein_per_100g,
                                NamedFoods[i].carbs_per_100g,
                                NamedFoods[i].fat_per_100g),
                            NamedFoods[i].protein_per_100g,
                            NamedFoods[i].carbs_per_100g,
                            NamedFoods[i].fat_per_100g, "groq_atwater")

\* C14 witness: two complete items were enriched without any lookup; 180.0
\* kcal was kept, 500.0 kcal was replaced by 165.0
C14_Witness ==
    /\ op = "enrich" /\ pc = "done"
    /\ calls = <<>>
    /\ Len(result) = 2
    /\ arg.foods[1].calories_per_100g = 180 * Gram
    /\ result[1][3].calories_per_100g = 180 * Gram
    /\ arg.foods[2].calories_per_100g = 500 * Gram
    /\ result[2][3].calories_per_100g = 165 * Gram

\* a text message that is all digits and 8 to 14 characters long
BarcodeShaped(input) ==
    input.kind = "text" /\ input.digits /\ input.len \in 8 .. 14

\* the services the handler at hand has awaited
InvokedServices == {invoked[i].svc : i \in 1 .. Len(invoked)}

\* C15: for a text that is all digits with length 8-14 the handler invokes
\* the barcode provider chain and never the text interpreter, also when the
\* chain finds nothing; that input writes nothing to the food log.
C15_BarcodeTextPath ==
    /\ [](BarcodeShaped(handler.input) =>
            /\ op = "barcode"
            /\ pc \notin {"gemini", "enrich", "log", "plate", "photo_label"}
            /\ InvokedServices \subseteq {"barcode_chain"}
            /\ \A i \in 1 .. Len(calls) : calls[i].svc # "label"
            /\ (pc = "replied") =>
                  /\ Len(invoked) = 1
                  /\ invoked[1].svc = "barcode_chain"
                  /\ handler.reply =
                         IF invoked[1].ret = None THEN "not_found"
                         ELSE "ask_quantity")
    /\ [][(BarcodeShaped(handler.input) \/ BarcodeShaped(handler'.input))
             => food_log' = food_log]_vars

\* C15 witness: a typed barcode that no provider knows was answered with
\* "not found" while the food log held rows of an earlier message
C15_Witness ==
    /\ BarcodeShaped(handler.input)
    /\ pc = "replied"
    /\ handler.reply = "not_found"
    /\ Len(calls) >= 5
    /\ food_log # <<>>
    /\ fsm.state = "none"

\* the handler of a photo in which the detector has read a code
PhotoWithCode ==
    /\ handler.name = "photo"
    /\ Len(invoked) >= 1
    /\ invoked[1].svc = "detector"
    /\ invoked[1].ret # None

\* C16: for a photo the barcode detector is awaited before any interpreter;
\* when it returns a code the provider chain is asked with that code and
\* with the image, and neither the plate analysis nor the text interpreter
\* is invoked, with or without a caption.
C16_PhotoBarcodeFirst ==
    /\ (handler.name = "photo" /\ pc = "detect") =>
          (invoked = <<>> /\ calls = <<>>)
    /\ (handler.name = "photo" /\ pc # "detect") =>
          (Len(invoked) >= 1 /\ invoked[1].svc = "detector")
    /\ PhotoWithCode =>
          /\ op = "barcode"
          /\ arg.image
          /\ arg.code = invoked[1].ret
          /\ pc \notin {"plate", "photo_label", "gemini", "enrich", "log"}
          /\ InvokedServices \subseteq {"detector", "barcode_chain"}
          /\ (pc = "replied") =>
                (Len(invoked) = 2 /\ invoked[2].svc = "barcode_chain")

\* C16 witness: a captioned photo with a code went through the provider
\* chain, which ended in the label reading of the attached image
C16_Witness ==
    /\ PhotoWithCode
    /\ handler.input.caption
    /\ pc = "replied"
    /\ handler.reply = "ask_quantity"
    /\ result.source = "groq_image_analysis"
    /\ fsm.barcode = DetectedCode

\* the handler of a photo without caption in which no code was read
PlainPhoto ==
    /\ handler.name = "photo"
    /\ ~handler.input.caption
    /\ Len(invoked) >= 1
    /\ invoked[1].svc = "detector"
    /\ invoked[1].ret = None

\* both interpretations of a plain photo have returned nothing
BothYieldedNothing ==
    /\ PlainPhoto
    /\ Len(invoked) = 3
    /\ invoked[2].ret = None
    /\ invoked[3].ret = None

UnidentifiedNames ==
    {"No identificado", "No identificado (pasta)",
     "Plato no identificado", "Plato no identificado (pasta)"}

\* a plate record without identified dish and with all-zero macros
UnidentifiedPlate(r) ==
    /\ IsRecord(r)
    /\ r.source = "groq_plate_analysis"
    /\ r.food_name \in UnidentifiedNames
    /\ ~HasMacros(r)

\* C18: when the plate analysis cannot identify a dish and reports all-zero
\* macros, analyze_food_plate_with_groq returns None, the handler goes on
\* to the label reading, and no quantity session is opened with an
\* unidentified all-zero record.  (The code breaks it: the answer 'Nombre:
\* No identificado' is returned as a record and opens the session.)
C18_UnidentifiedPlateFails ==
    /\ \A i \in 1 .. Len(invoked) :
          invoked[i].svc = "plate" => ~UnidentifiedPlate(invoked[i].ret)
    /\ (fsm.state = "waiting_quantity") => ~UnidentifiedPlate(fsm.nutrition_data)

\* the interpreters: text interpreter, plate analysis, label reading
InterpreterCalls ==
    {invoked[i] : i \in {j \in 1 .. Len(invoked) :
                            invoked[j].svc \in {"gemini", "plate", "label"}}}
    \cup {calls[i] : i \in {j \in 1 .. Len(calls) : calls[j].svc = "label"}}

\* C19: process_with_gemini, analyze_food_plate_with_groq and
\* _analyze_nutrition_label_with_groq return None and never raise when the
\* completion call raises or its response cannot be parsed.
C19_InterpreterFailureIsValue ==
    /\ \A c \in InterpreterCalls :
          /\ c.ret # Raised
          /\ c.failed => c.ret = None
    /\ handler.reply # "error"

\* C19 witness: the completion call of the plate analysis raised and the
\* response to the label reading could not be parsed; both returned None
C19_Witness ==
    /\ BothYieldedNothing
    /\ invoked[2].failed
    /\ invoked[3].failed
    /\ pc = "replied"
    /\ handler.reply = "needs_description"

\* C20: when the label reading contains a calorie figure, the record's
\* calories are that figure reconciled against the read macros; when it
\* contains none, they are the Atwater value of the read macros.
C20_LabelCalories ==
    (pc = "done" /\ op = "label" /\ IsRecord(result)) =>
        /\ result.protein_per_100g = arg.macros[1]
        /\ result.carbs_per_100g = arg.macros[2]
        /\ result.fat_per_100g = arg.macros[3]
        /\ (arg.cal > 0) =>
              result.calories_per_100g =
                  ValidateAndFixCalories(arg.cal, arg.macros[1], arg.macros[2],
                                         arg.macros[3])
        /\ (arg.cal = 0) =>
              result.calories_per_100g =
                  AtwaterKcal(arg.macros[1], arg.macros[2], arg.macros[3])

\* C20 witness: a label read as 500.0 kcal with 10 / 20 / 5 g of macros
\* gave a record with 165.0 kcal
C20_Witness ==
    /\ pc = "done" /\ op = "label"
    /\ arg.cal = 500 * Gram
    /\ arg.macros = SomeMacros
    /\ IsRecord(result)
    /\ result.calories_per_100g = 165 * Gram

\* ------------------------------------------------------------------------
\* The logical day
\* ------------------------------------------------------------------------

\* a datetime at the start hour sharp
AtStartHour(dt) ==
    /\ dt.hour = LogicalDayStartHour
    /\ dt.minute = 0 /\ dt.second = 0 /\ dt.microsecond = 0

\* C21: get_logical_day_start(t) is the most recent instant at 03:00:00
\* that is not after t: it is at 03:00:00 sharp, it is t's date when t's
\* clock time is 03:00:00 or later and the day before otherwise, it is not
\* after t and less than 24 hours before t; 02:59:59 of day 2 gives 03:00:00
\* of day 1 and 03:00:00 of day 2 gives itself.
C21_DayStart ==
    (pc = "done" /\ op = "day_start") =>
        /\ AtStartHour(result)
        /\ result.day =
              IF arg.hour < LogicalDayStartHour THEN arg.day - 1 ELSE arg.day
        /\ Ticks(result) <= Ticks(arg)
        /\ Ticks(arg) < Ticks(result) + Timedelta(1, 0, 0)
        /\ arg = Datetime(2, 2, 59, 59, 0) => result = Datetime(1, 3, 0, 0, 0)
        /\ arg = Datetime(2, 3, 0, 0, 0) => result = Datetime(2, 3, 0, 0, 0)

\* the day start of 02:59:59 has been computed: it is on the day before
C21_Witness ==
    /\ pc = "done" /\ op = "day_start"
    /\ arg = Datetime(2, 2, 59, 59, 0)
    /\ result = Datetime(1, 3, 0, 0, 0)

\* C22: for any instant t, get_logical_day_end(t) is get_logical_day_start(t)
\* plus 23:59:59, and t lies between the two: start <= t <= end.
C22_DayEndBounds ==
    (pc = "done" /\ op = "day_end") =>
        /\ result = Plus(GetLogicalDayStart(arg), Timedelta(0, 23, 59 * 60 + 59))
        /\ Ticks(GetLogicalDayStart(arg)) <= Ticks(arg)
        /\ Ticks(arg) <= Ticks(result)

\* the closed logical-day windows [start, end] of the instants tried
Windows == {<<GetLogicalDayStart(u), GetLogicalDayEnd(u)>> : u \in Instants}

\* the windows a given instant lies in
WindowsOf(t) ==
    {w \in Windows : Ticks(w[1]) <= Ticks(t) /\ Ticks(t) <= Ticks(w[2])}

\* C23: logical days partition time at second granularity: the end of a
\* logical day plus one second is the start of the logical day of the next
\* calendar day, the end of a day is before the start of the next, and
\* every whole-second instant lies in exactly one window [start, end].
C23_DayPartition ==
    (pc = "done" /\ op = "day_end") =>
        LET next_day == Plus(arg, Timedelta(1, 0, 0))
        IN  /\ Ticks(result) + Timedelta(0, 0, 1)
                  = Ticks(GetLogicalDayStart(next_day))
            /\ Ticks(result) < Ticks(GetLogicalDayStart(next_day))
            /\ arg.microsecond = 0 => Cardinality(WindowsOf(arg)) = 1

\* the end of the logical day of 02:59:59: that very second, the last one
\* before the next logical day starts
C23_Witness ==
    /\ pc = "done" /\ op = "day_end"
    /\ arg = Datetime(2, 2, 59, 59, 0)
    /\ result = arg
    /\ Cardinality(Windows) > 1
    /\ GetLogicalDayStart(Plus(arg, Timedelta(0, 0, 1))) = Datetime(2, 3, 0, 0, 0)

\* ------------------------------------------------------------------------
\* The database
\* ------------------------------------------------------------------------

\* the rows of a user in the half-open 24-hour window that starts at the
\* start of the logical day of a datetime
HalfOpenDay(user_id, date) ==
    {r \in food_logs :
        /\ r.user_id = user_id
        /\ Ticks(GetLogicalDayStart(date)) <= Ticks(r.timestamp)
        /\ Ticks(r.timestamp)
              < Ticks(GetLogicalDayStart(date)) + Timedelta(0, 24, 0)}

\* the logical days, each named by its start
LogicalDays == {GetLogicalDayStart(t) : t \in Instants}

\* the logical days in whose totals a row is counted
CountedIn(r) ==
    {d \in LogicalDays : r \in SelectDay(food_logs, r.user_id, d)}

\* C24: the aggregate queries of get_today_totals (/estado) and of
\* get_day_history (/historial) count exactly the user's rows with
\* dayStart <= timestamp < dayStart + 24h, and every row of the food log is
\* counted in the totals of exactly one logical day.
C24_HalfOpenDayTotals ==
    /\ db_op.name = "estado" =>
          db_op.ret.food_count
              = Cardinality(HalfOpenDay(db_op.user_id, db_op.arg))
    /\ db_op.name = "historial" =>
          db_op.ret.food_logs = HalfOpenDay(db_op.user_id, db_op.arg)
    /\ \A r \in food_logs : Cardinality(CountedIn(r)) = 1

\* ------------------------------------------------------------------------
\* Barcode texts and the barcode detector
\* ------------------------------------------------------------------------

\* C25: is_valid_barcode(t) is true if and only if t consists only of
\* digits and has 8 to 14 of them: 13 digits are valid; a text with
\* letters, 7 digits and 15 digits are not.
C25_IsValidBarcode ==
    (pc = "done" /\ op = "is_valid_barcode") =>
        /\ result = TRUE <=> (arg.digits /\ arg.len \in 8 .. 14)
        /\ result \in BOOLEAN
        /\ (arg.digits /\ arg.len = 13) => result = TRUE
        /\ (~arg.digits /\ arg.len = 6) => result = FALSE
        /\ (arg.digits /\ arg.len \in {7, 15}) => result = FALSE

\* a text of 15 digits has been refused
C25_Witness ==
    /\ pc = "done" /\ op = "is_valid_barcode"
    /\ arg.digits /\ arg.len = 15
    /\ result = FALSE

\* the runs of 8 to 14 digits embedded in a payload
EmbeddedRuns(payload) ==
    {i \in 1 .. Len(payload) :
        payload[i].digit /\ payload[i].len \in 8 .. 14}

\* C26: _try_pyzbar_decode returns a code from a decoded payload only if the
\* payload is all digits with 8 to 14 of them (the code is the payload), or
\* the payload has other characters and the code is its longest embedded
\* run of 8 to 14 digits; when every payload is all digits and shorter than
\* 8 or longer than 14, no code is returned.
C26_DetectorAcceptance ==
    detector.pc = "decoded" =>
        LET objects == detector.arg.objects
            code == detector.result
        IN  /\ code # None =>
                  LET payload == objects[code.object]
                  IN  \/ /\ IsDigit(payload)
                         /\ payload[1].len \in 8 .. 14
                         /\ code.run = 1 /\ code.len = payload[1].len
                      \/ /\ ~IsDigit(payload)
                         /\ code.run \in EmbeddedRuns(payload)
                         /\ code.len = payload[code.run].len
                         /\ \A i \in EmbeddedRuns(payload) :
                               payload[i].len <= code.len
            /\ (\A k \in 1 .. Len(objects) :
                    IsDigit(objects[k]) /\ objects[k][1].len \notin 8 .. 14)
                  => code = None

\* an attempt that yielded no code: nothing accepted, or its transform raised
YieldedNothing(attempt) == attempt.ret = None \/ attempt.ret = Raised

\* C27: for a readable image extract_barcode_from_image makes its attempts
\* one after another in fixed order, the 4 rotations outside and the 7
\* transforms inside; it stops at the first attempt that yields a code, no
\* attempt follows it; it answers None only after all 28 attempts yielded
\* nothing; a transform that raises is an attempt that yielded nothing and
\* the search goes on.
C27_DetectorSearch ==
    (detector.pc \in {"search", "done"} /\ detector.arg.readable) =>
        LET a == detector.attempts
        IN  /\ Len(a) <= 28
            /\ \A k \in 1 .. Len(a) :
                  /\ a[k].angle = RotationAngles[((k - 1) \div 7) + 1]
                  /\ a[k].strategy = Strategies[((k - 1) % 7) + 1]
            /\ \A k \in 1 .. Len(a) - 1 : YieldedNothing(a[k])
            /\ detector.pc = "search" =>
                  /\ Len(a) < 28
                  /\ \A k \in 1 .. Len(a) : YieldedNothing(a[k])
            /\ detector.pc = "done" =>
                  IF detector.result = None
                  THEN Len(a) = 28 /\ YieldedNothing(a[28])
                  ELSE /\ Len(a) >= 1
                       /\ ~YieldedNothing(a[Len(a)])
                       /\ detector.result = a[Len(a)].ret

\* all 28 attempts were made, one of them raised, and None was answered
C27_Witness ==
    /\ detector.pc = "done"
    /\ detector.arg.readable
    /\ detector.result = None
    /\ Len(detector.attempts) = 28
    /\ \E k \in 1 .. 27 : detector.attempts[k].ret = Raised

\* the saved meal a user has under a name, as a set of rows
MealsOf(user_id, meal_name) ==
    {m \in saved_meals : m.user_id = user_id /\ m.meal_name = meal_name}

\* a step in which save_meal was called: /guardar_plato with foods today
SaveMealCalled ==
    /\ db_op'.name = "guardar_plato"
    /\ db_op'.ret.reply # "no_foods"
    /\ \/ db_op.name # "guardar_plato"
       \/ db_op.user_id # db_op'.user_id
       \/ db_op.arg # db_op'.arg
       \/ db_op.ret # db_op'.ret

\* C28: after any sequence of save_meal and delete_saved_meal calls there is
\* at most one saved meal per user and name; save_meal with a name the user
\* already has returns -1 and leaves the saved meals as they were; with a
\* name the user does not have, whoever else has it, the meal is saved.
C28_SavedMealsUnique ==
    /\ [](\A u \in Users, n \in MealNames :
              Cardinality(MealsOf(u, n)) <= 1)
    /\ [][SaveMealCalled =>
             IF MealsOf(db_op'.user_id, db_op'.arg) # {}
             THEN db_op'.ret.meal_id = -1 /\ saved_meals' = saved_meals
             ELSE /\ db_op'.ret.meal_id # -1
                  /\ \E m \in saved_meals' \ saved_meals :
                        /\ m.user_id = db_op'.user_id
                        /\ m.meal_name = db_op'.arg
                        /\ saved_meals' = saved_meals \cup {m}]_vars

\* both users have a meal of the same name, and a second save under that
\* name has just been refused
C28_Witness ==
    /\ \E n \in MealNames :
          /\ \A u \in Users : MealsOf(u, n) # {}
          /\ db_op.name = "guardar_plato" /\ db_op.arg = n
    /\ db_op.ret.meal_id = -1

\* C29: the food log is append-only: a row that has been logged stays in
\* table food_logs, unmodified, whatever command runs.
C29_AppendOnly == [][\A r \in food_logs : r \in food_logs']_vars

\* ------------------------------------------------------------------------
\* The event loop
\* ------------------------------------------------------------------------

\* C30: independent users do not block each other: while the task of one
\* user is in the completion call of process_with_gemini, a task of
\* another user that can run on is run by the loop.
C30_UsersDoNotBlock ==
    \A u \in Users, v \in Users :
        (u # v /\ tasks[u].at = "completion" /\ tasks[v].ready)
            => ENABLED RunTask(v)

\* ------------------------------------------------------------------------
\* The quantity session
\* ------------------------------------------------------------------------

\* the step is handle_barcode_quantity, from the text to its reply
QuantityStep == handler.name = "none" /\ handler'.name = "quantity"

\* the text parses to an integer g with 1 <= g <= 10000
ParsesToQuantity(text) ==
    /\ ParseGrams(text).ok
    /\ 1 <= ParseGrams(text).grams
    /\ ParseGrams(text).grams <= MaxQuantity

\* int(per-100g value / 100 * g), in whole units
Portion(per_100g, g) == (per_100g * g) \div (100 * Gram)

\* the entry of the pending record for g grams
EntryOf(nutrition, g) ==
    /\ Len(food_log') = Len(food_log) + 1
    /\ SubSeq(food_log', 1, Len(food_log)) = food_log
    /\ LET row == food_log'[Len(food_log')]
       IN  /\ row.food_name = nutrition.food_name
           /\ row.quantity_grams = g
           /\ row.totals.calories = Portion(nutrition.calories_per_100g, g)
           /\ row.totals.protein = Portion(nutrition.protein_per_100g, g)
           /\ row.totals.carbs = Portion(nutrition.carbs_per_100g, g)
           /\ row.totals.fat = Portion(nutrition.fat_per_100g, g)

NamesOf(results) == {r.food_name : r \in results \ {None}}

\* the step opens a quantity session
SessionOpens == handler'.reply = "ask_quantity" /\ handler.reply = "none"

\* C33: every entry that carries a barcode was logged from a record
\* resolved through the barcode path for that code, and an entry of a
\* plate- or label-analysis record carries no barcode, whatever session was
\* pending when the photo arrived.  The session opened by the barcode path
\* holds the code that was looked up and the record found for it, the
\* quantity handler logs the record and the barcode of its session, and the
\* entries of the interpreted inputs carry no barcode.
C33_NoStaleBarcode ==
    /\ [](\A i \in 1..Len(food_log) :
             /\ food_log[i].barcode # None
                   => food_log[i].food_name \in NamesOf(ChainResults)
             /\ food_log[i].food_name \in NamesOf(AnalysisResults)
                   => food_log[i].barcode = None)
    /\ [][(SessionOpens /\ op = "barcode")
             => fsm'.barcode = arg.code /\ fsm'.nutrition_data = result]_vars
    /\ [][(QuantityStep /\ Len(food_log') > Len(food_log))
             => /\ food_log'[Len(food_log')].barcode = fsm.barcode
                /\ food_log'[Len(food_log')].food_name
                      = fsm.nutrition_data.food_name]_vars
    /\ [][(~QuantityStep /\ Len(food_log') > Len(food_log))
             => food_log'[Len(food_log')].barcode = None]_vars

\* the parts of C33 that hold: what a barcode session holds, what the
\* quantity handler logs, and no barcode from the interpreted inputs
C33_SessionBarcodeLogged ==
    /\ [][(SessionOpens /\ op = "barcode")
             => fsm'.barcode = arg.code /\ fsm'.nutrition_data = result]_vars
    /\ [][(QuantityStep /\ Len(food_log') > Len(food_log))
             => /\ food_log'[Len(food_log')].barcode = fsm.barcode
                /\ food_log'[Len(food_log')].food_name
                      = fsm.nutrition_data.food_name]_vars
    /\ [][(~QuantityStep /\ Len(food_log') > Len(food_log))
             => food_log'[Len(food_log')].barcode = None]_vars
    /\ [][(SessionOpens /\ op # "barcode" /\ fsm.state = "none")
             => fsm'.barcode = None]_vars

\* a handler starts on a text message
TextStep ==
    handler.name = "none" /\ handler'.name # "none"
        /\ handler'.input.kind = "text"

\* C34: while the session is in waiting_quantity, every text that is not a
\* command is handled by the quantity handler only: the handler that starts
\* on it is handle_barcode_quantity, whatever the text (a barcode of eight
\* digits included), and it awaits no barcode lookup and no interpretation.
C34_SessionRouting ==
    /\ [][(TextStep /\ fsm.state = "waiting_quantity")
             => handler'.name = "quantity" /\ invoked' = <<>>]_vars
    /\ [](handler.name = "quantity" => invoked = <<>> /\ pc = "replied")

\* the quantity handler has answered a text that is a valid barcode, and
\* the session goes on
C34_Witness ==
    /\ handler.name = "quantity"
    /\ IsValidBarcode(handler.input)
    /\ fsm.state = "waiting_quantity"
    /\ invoked = <<>>

\* the entries the running handler has written for its input: the loop over
\* the foods has written idx - 1 rows
EntriesOfInput ==
    IF op = "enrich" /\ pc \in {"log", "replied"} /\ idx - 1 <= Len(food_log)
    THEN SubSeq(food_log, Len(food_log) - (idx - 1) + 1, Len(food_log))
    ELSE <<>>

\* C38: logging the foods of one input is all-or-nothing: when a log_food
\* call fails and the user is told an error occurred, no entry of that
\* input is in the food log; when no call fails, the input's n foods are n
\* entries.
C38_AllOrNothing ==
    /\ []((/\ handler.name \in {"text", "photo"}
            /\ op = "enrich" /\ pc = "replied" /\ handler.reply = "error")
              => EntriesOfInput = <<>>)
    /\ []((/\ handler.name \in {"text", "photo"}
            /\ op = "enrich" /\ pc = "replied"
            /\ handler.reply = "registered")
              => Len(EntriesOfInput) = Len(result))

\* without a failure the n foods of the input are its n entries, in order
C38_EveryFoodLogged ==
    (/\ handler.name \in {"text", "photo"}
     /\ op = "enrich" /\ pc = "replied" /\ handler.reply = "registered")
        => /\ Len(EntriesOfInput) = Len(result)
           /\ \A i \in 1..Len(result) :
                 EntriesOfInput[i]
                     = LogRow(result[i][1], result[i][2], result[i][3])

\* ------------------------------------------------------------------------
\* The commands /guardar_plato, /historial and /deshacer
\* ------------------------------------------------------------------------

\* the step is the command of that name
CommandStep(name) == db_op'.name = name /\ now' = now

\* the rows of the user's food input that was logged last
LatestInput(user_id) ==
    {r \in food_logs :
        /\ r.user_id = user_id
        /\ \A q \in food_logs : q.user_id = user_id => q.log_id <= r.log_id}

\* C35: /guardar_plato saves the last registered meal: the totals of the
\* meal it saves are those of the user's most recently logged food input
\* only, and without an entry of the user in the current logical day
\* nothing is saved.
C35_SavesLastMeal ==
    [][CommandStep("guardar_plato")
          => IF HalfOpenDay(db_op'.user_id, now) = {}
             THEN saved_meals' = saved_meals
             ELSE \A m \in saved_meals' \ saved_meals :
                     m.total_calories
                         = SumCalories(LatestInput(db_op'.user_id))]_vars

\* C36: /historial for a calendar date D reports the logical day that
\* begins on D: the list and the summary cover exactly the user's entries
\* with timestamp from D 03:00:00 up to D+1 03:00:00.
C36_HistorialOfDate ==
    db_op.name = "historial"
        => LET D == db_op.arg.day
               entries ==
                   {r \in food_logs :
                       /\ r.user_id = db_op.user_id
                       /\ Ticks(Datetime(D, LogicalDayStartHour, 0, 0, 0))
                             <= Ticks(r.timestamp)
                       /\ Ticks(r.timestamp)
                             < Ticks(Datetime(D + 1, LogicalDayStartHour,
                                              0, 0, 0))}
           IN  /\ db_op.ret.food_logs = entries
               /\ db_op.ret.summary = Totals(entries)

C39_GetOrCreateInterleaved ==
    /\ \A c \in Callers : callers[c].at # "raised"
    /\ \A c \in Callers :
          callers[c].at = "returned"
              => callers[c].row /\ users[callers[c].user_id] = 1

\* the part of C39 that holds: no user id ever has more than one row, and
\* a call that returns has found the row
C39_OneRowPerUser ==
    /\ \A u \in Users : users[u] <= 1
    /\ \A c \in Callers :
          callers[c].at = "returned"
              => callers[c].row /\ users[callers[c].user_id] = 1

====
